---- MODULE Spec2Model ----
(***************************************************************************)
(* familiar-says: the grid canvas (internal/canvas), the animation frame   *)
(* player (internal/animation/frames.go) and the two Bubble Tea models     *)
(* that drive the tick loop (character animation and typing animation).    *)
(*                                                                         *)
(* Strings are sequences of one-character strings.  Time is counted in     *)
(* whole units; one unit is the tick period of the animation loop.         *)
(***************************************************************************)
EXTENDS Integers, Sequences, FiniteSets, TLC

VARIABLES
    \* ---- FramePlayer (frames.go) ----
    animation,      \* fp.animation
    currentFrame,   \* fp.currentFrame
    elapsed,        \* fp.elapsed
    done,           \* fp.done
    lastCanvas,     \* the canvas returned by the last Tick
    \* ---- observers of the FramePlayer scenario ----
    ticked,         \* TRUE when the last operation was a Tick
    total,          \* sum of the deltas ticked since construction / Reset
    resetFrom,      \* "none", or the state ("Playing" / "Done") in which Reset
                    \* or SetAnimation was last called
    tickLoop,       \* the Tick call in progress: where it is in its loop, its
                    \* delta, the cursor it started from, and whether the loop
                    \* has run an odd number of times
    fresh,          \* a player built by NewFramePlayer at the last Reset /
                    \* SetAnimation (or at construction), given the same Ticks
    \* ---- the Bubble Tea programs (character animation, typing animation) ----
    prog,           \* "character" (AnimateCharacter), "typing" (Animate) or "none"
    config,         \* CharacterAnimationConfig: Duration, TypingSpeed
    charModel,      \* CharacterModel; its framePlayer is the FramePlayer above
    typingModel,    \* the typing Model
    now,            \* time of the last CharacterTickMsg, in tick periods
    lastMsg,        \* the message the last Update handled
    lastCmd,        \* the command the last Update (or Init) returned
    tickPending,    \* a tick command has been issued and its message not yet handled
    quitIssued,     \* a Quit command has been returned: the program ends
    \* ---- canvases as objects: cell storage and the pointers into it ----
    heap,           \* the allocated cell grids, by storage number
    canvasA,        \* two canvases a caller holds (pointers, possibly nil)
    canvasB,
    returned,       \* the canvas the last operation returned (nil: none)
    op,             \* the operation applied and its arguments
    snap,           \* the contents of both before, and of the returned one right after it
    probe,          \* the canvas written to after the operation ("none": none)
    got,            \* the cell the last Get returned
    \* ---- calls of the functions that keep no state ----
    call,           \* the function called last and its arguments
    callResult,     \* what it returned
    characterCache, \* canvas.characterCache: the (name, character) pairs stored
    templateCache,  \* bubble.templateCache: the (name, template) pairs stored
    embeddedFS,     \* the filesystem set by SetEmbeddedFS ("none": not set)
    characterListCache, \* canvas.characterListCache
    characterListOnce,  \* canvas.characterListOnce: "fresh", "running" or "done"
    characterCacheMu,   \* canvas.characterCacheMu: who holds the RWMutex
    goroutines,     \* where each rendering goroutine is in the call it makes
    fatal           \* the runtime has aborted the program

playerVars == <<animation, currentFrame, elapsed, done, lastCanvas,
                ticked, total, resetFrom, fresh, tickLoop>>

loopVars == <<prog, config, charModel, typingModel, now, lastMsg, lastCmd, tickPending, quitIssued>>

canvasVars == <<heap, canvasA, canvasB, returned, op, snap, probe, got>>

embedVars == <<embeddedFS, characterListCache, characterListOnce, characterCacheMu,
               goroutines, fatal>>

callVars == <<call, callResult, characterCache, templateCache, embedVars>>

vars == <<animation, currentFrame, elapsed, done, lastCanvas,
          ticked, total, resetFrom, fresh, tickLoop,
          prog, config, charModel, typingModel, now, lastMsg, lastCmd, tickPending, quitIssued,
          heap, canvasA, canvasB, returned, op, snap, probe, got,
          call, callResult, characterCache, templateCache,
          embeddedFS, characterListCache, characterListOnce, characterCacheMu,
          goroutines, fatal>>

(***************************************************************************)
(* Bounds                                                                  *)
(***************************************************************************)
MaxFrames == 2      \* frames per animation sequence
MaxDur == 2         \* largest frame duration
MaxDelta == 3       \* largest delta of one Tick
MaxTotal == 6       \* Ticks are issued while the summed deltas stay within this
MaxTypingSpeed == 2 \* largest TypingSpeed, in tick periods
MaxDuration == 2    \* largest Duration, in tick periods
MaxClock == 56      \* tick messages are delivered up to this time
MaxDim == 2         \* largest width and height of the operand canvases
MaxText == 4        \* longest text given to wrapText
MaxSlotWidth == 4   \* largest declared width of a slot
MaxSlotLine == 3    \* largest row index of a slot
MaxGap == 4         \* largest gap looked for between two composed parts
MaxListed == 4      \* the filesystem is changed while the name list is no longer
MaxBubbleWidth == 5 \* largest bubble width besides the default

(***************************************************************************)
(* Small helpers                                                           *)
(***************************************************************************)
Max(a, b) == IF a > b THEN a ELSE b

abs(x) == IF x < 0 THEN -x ELSE x

\* runewidth.RuneWidth: the rune "W" stands for a double-width symbol
\* and a control character has no width
RuneWidth(r) == IF r = "W" THEN 2 ELSE IF r \in {"\t", "\n", "\r"} THEN 0 ELSE 1

RECURSIVE StringWidth(_)
StringWidth(s) == IF s = <<>> THEN 0 ELSE RuneWidth(Head(s)) + StringWidth(Tail(s))

RECURSIVE MaxLineWidth(_)
MaxLineWidth(lines) ==
    IF lines = <<>> THEN 0 ELSE Max(StringWidth(Head(lines)), MaxLineWidth(Tail(lines)))

(***************************************************************************)
(* Canvas (canvas.go).  A canvas value is its Width, Height and Cells,     *)
(* Cells[y][x] with 0 <= y < Height, 0 <= x < Width as in the code.        *)
(***************************************************************************)
NoStyle == "plain"

TransparentCell == [Rune |-> " ", Style |-> NoStyle, Transparent |-> TRUE]

NilCanvas == [isNil |-> TRUE, Width |-> 0, Height |-> 0, Cells |-> <<>>]

\* a NewCanvas that takes the dimensions as given
NewCanvasUnclamped(width, height) ==
    [isNil |-> FALSE, Width |-> width, Height |-> height,
     Cells |-> [y \in 0..(height - 1) |-> [x \in 0..(width - 1) |-> TransparentCell]]]

NewCanvas(width, height) ==
    LET w == IF width <= 0 THEN 1 ELSE width
        h == IF height <= 0 THEN 1 ELSE height
    IN [isNil |-> FALSE, Width |-> w, Height |-> h,
        Cells |-> [y \in 0..(h - 1) |-> [x \in 0..(w - 1) |-> TransparentCell]]]

\* the write of Set into one row: columns outside 0..width-1 are ignored
SetCell(row, width, x, r, style) ==
    IF x < 0 \/ x >= width THEN row
    ELSE [row EXCEPT ![x] = [Rune |-> r, Style |-> style, Transparent |-> FALSE]]

\* a Set that moves outside coordinates to the nearest cell
SetClamped(c, x, y, r, style) ==
    LET cx == IF x < 0 THEN 0 ELSE IF x >= c.Width THEN c.Width - 1 ELSE x
        cy == IF y < 0 THEN 0 ELSE IF y >= c.Height THEN c.Height - 1 ELSE y
    IN [c EXCEPT !.Cells[cy][cx] = [Rune |-> r, Style |-> style, Transparent |-> FALSE]]

Set(c, x, y, r, style) ==
    IF x < 0 \/ x >= c.Width \/ y < 0 \/ y >= c.Height
    THEN c
    ELSE [c EXCEPT !.Cells[y] = SetCell(c.Cells[y], c.Width, x, r, style)]

Get(c, x, y) ==
    IF x < 0 \/ x >= c.Width \/ y < 0 \/ y >= c.Height
    THEN TransparentCell
    ELSE c.Cells[y][x]

\* an inner loop that writes every cell of the other row, transparent or not
RECURSIVE OverlayRowAll(_, _, _, _, _, _)
OverlayRowAll(row, width, otherRow, otherWidth, x, ox) ==
    IF ox >= otherWidth THEN row
    ELSE OverlayRowAll(SetCell(row, width, x + ox, otherRow[ox].Rune, otherRow[ox].Style),
                       width, otherRow, otherWidth, x, ox + 1)

\* Overlay's inner loop for one row oy of other, from column ox on: row is the
\* receiver's row y + oy, which is the only row the loop's Set calls write
RECURSIVE OverlayRow(_, _, _, _, _, _)
OverlayRow(row, width, otherRow, otherWidth, x, ox) ==
    IF ox >= otherWidth THEN row
    ELSE OverlayRow(IF ~otherRow[ox].Transparent
                    THEN SetCell(row, width, x + ox, otherRow[ox].Rune, otherRow[ox].Style)
                    ELSE row,
                    width, otherRow, otherWidth, x, ox + 1)

\* Overlay's outer loop: row oy of other goes onto row y + oy of the receiver,
\* when the receiver has that row (Set ignores the others)
Overlay(c, other, x, y) ==
    IF other.isNil THEN c
    ELSE [c EXCEPT !.Cells =
            [yy \in 0..(c.Height - 1) |->
                IF yy - y >= 0 /\ yy - y < other.Height
                THEN OverlayRow(c.Cells[yy], c.Width, other.Cells[yy - y],
                                other.Width, x, 0)
                ELSE c.Cells[yy]]]

Clone(c) ==
    LET clone == NewCanvas(c.Width, c.Height)
    IN [clone EXCEPT !.Cells =
          [y \in 0..(clone.Height - 1) |-> [x \in 0..(clone.Width - 1) |->
              IF y < c.Height /\ x < c.Width THEN c.Cells[y][x] ELSE clone.Cells[y][x]]]]

\* a Merge that places right directly after left, whatever the gap
MergeNoGap(left, right, gap) ==
    IF left.isNil /\ right.isNil THEN NewCanvas(1, 1)
    ELSE IF left.isNil THEN Clone(right)
    ELSE IF right.isNil THEN Clone(left)
    ELSE Overlay(Overlay(NewCanvas(left.Width + right.Width,
                                   Max(left.Height, right.Height)),
                         left, 0, 0),
                 right, left.Width, 0)

Merge(left, right, gap) ==
    IF left.isNil /\ right.isNil THEN NewCanvas(1, 1)
    ELSE IF left.isNil THEN Clone(right)
    ELSE IF right.isNil THEN Clone(left)
    ELSE LET width == left.Width + gap + right.Width
             height == IF right.Height > left.Height THEN right.Height ELSE left.Height
             result == NewCanvas(width, height)
         IN Overlay(Overlay(result, left, 0, 0), right, left.Width + gap, 0)

Stack(top, bottom, gap) ==
    IF top.isNil /\ bottom.isNil THEN NewCanvas(1, 1)
    ELSE IF top.isNil THEN Clone(bottom)
    ELSE IF bottom.isNil THEN Clone(top)
    ELSE LET width == IF bottom.Width > top.Width THEN bottom.Width ELSE top.Width
             height == top.Height + gap + bottom.Height
             result == NewCanvas(width, height)
         IN Overlay(Overlay(result, top, 0, 0), bottom, 0, top.Height + gap)

Resize(c, newWidth, newHeight) == Overlay(NewCanvas(newWidth, newHeight), c, 0, 0)

\* the rune 0 that DrawString puts in the extra columns of a wide symbol
Continuation == "NUL"

\* DrawString's loop from column col on: the runes of s written into row y
RECURSIVE DrawRunes(_, _, _, _, _)
DrawRunes(row, width, col, s, style) ==
    IF s = <<>> THEN row
    ELSE DrawRunes(IF RuneWidth(Head(s)) > 1
                   THEN SetCell(SetCell(row, width, col, Head(s), style),
                                width, col + 1, Continuation, style)
                   ELSE SetCell(row, width, col, Head(s), style),
                   width, col + RuneWidth(Head(s)), Tail(s), style)

DrawString(c, x, y, s, style) ==
    IF y < 0 \/ y >= c.Height THEN c
    ELSE [c EXCEPT !.Cells[y] = DrawRunes(c.Cells[y], c.Width, x, s, style)]

RECURSIVE DrawLines(_, _, _, _, _)
DrawLines(c, x, y, lines, style) ==
    IF lines = <<>> THEN c
    ELSE DrawLines(DrawString(c, x, y, Head(lines), style), x, y + 1, Tail(lines), style)

FromLines(lines, style) ==
    IF Len(lines) = 0 THEN NewCanvas(1, 1)
    ELSE LET maxWidth == IF MaxLineWidth(lines) = 0 THEN 1 ELSE MaxLineWidth(lines)
         IN DrawLines(NewCanvas(maxWidth, Len(lines)), 0, 0, lines, style)

\* one row of Render from column x on: a styled symbol per content cell,
\* continuation cells skipped, the column advanced by the symbol's display width
RECURSIVE RenderRow(_, _, _)
RenderRow(c, y, x) ==
    IF x >= c.Width THEN <<>>
    ELSE LET cell == c.Cells[y][x]
         IN IF cell.Rune = Continuation
            THEN RenderRow(c, y, x + 1)
            ELSE <<[Rune |-> cell.Rune, Style |-> cell.Style]>>
                 \o RenderRow(c, y, x + Max(RuneWidth(cell.Rune), 1))

\* RenderPlain: the symbols of every row, continuation cells skipped
RenderPlain(c) ==
    [i \in 1..c.Height |->
        LET cells == [j \in 1..c.Width |-> c.Cells[i - 1][j - 1].Rune]
        IN SelectSeq(cells, LAMBDA r : r # Continuation)]

\* strings.TrimSpace(stripAnsi(line)) == ""
IsBlankLine(line) == \A i \in DOMAIN line : line[i].Rune = " "

RECURSIVE TrimTrailingBlank(_)
TrimTrailingBlank(lines) ==
    IF Len(lines) > 0 /\ IsBlankLine(lines[Len(lines)])
    THEN TrimTrailingBlank(SubSeq(lines, 1, Len(lines) - 1))
    ELSE lines

Render(c) == TrimTrailingBlank([i \in 1..c.Height |-> RenderRow(c, i - 1, 0)])

(***************************************************************************)
(* Character rendering (character.go)                                      *)
(***************************************************************************)
\* len(string) of one rune: the double-width rune takes three bytes
ByteLen(r) == IF r \in {"W", "NOTE8", "NOTE16"} THEN 3 ELSE 1

RECURSIVE ByteLength(_)
ByteLength(s) == IF s = <<>> THEN 0 ELSE ByteLen(Head(s)) + ByteLength(Tail(s))

Repeat(r, n) == [i \in 1..Max(n, 0) |-> r]

\* rune positions (0-based) at which sub occurs in s
Occurrences(s, sub) ==
    {i \in 0..(Len(s) - Len(sub)) : SubSeq(s, i + 1, i + Len(sub)) = sub}

Min(S) == CHOOSE a \in S : \A b \in S : a <= b

\* strings.Index: the byte offset of the first occurrence, -1 when there is none
Index(s, sub) ==
    IF Occurrences(s, sub) = {} THEN -1
    ELSE ByteLength(SubSeq(s, 1, Min(Occurrences(s, sub))))

\* strings.Replace(s, old, new, 1) for a non-empty old
ReplaceFirst(s, old, new) ==
    IF Occurrences(s, old) = {} THEN s
    ELSE LET i == Min(Occurrences(s, old))
         IN SubSeq(s, 1, i) \o new \o SubSeq(s, i + Len(old) + 1, Len(s))

NoSlot == [isNil |-> TRUE, Line |-> 0, Col |-> 0, Width |-> 0, Placeholder |-> <<>>]

\* a replaceSlot that puts the odd leftover space on the left
replaceSlotLeftBias(line, slot, value) ==
    IF slot.Placeholder = <<>> THEN line
    ELSE LET valueWidth == StringWidth(value)
             slotWidth == IF slot.Width < valueWidth THEN valueWidth ELSE slot.Width
             padding == slotWidth - valueWidth
             rightPad == padding \div 2
             leftPad == padding - rightPad
             centered == Repeat(" ", leftPad) \o value \o Repeat(" ", rightPad)
         IN ReplaceFirst(line, slot.Placeholder, centered)

replaceSlot(line, slot, value) ==
    IF slot.Placeholder = <<>> THEN line
    ELSE LET valueWidth == StringWidth(value)
             slotWidth == IF slot.Width < valueWidth THEN valueWidth ELSE slot.Width
             padding == slotWidth - valueWidth
             leftPad == padding \div 2
             rightPad == padding - leftPad
             centered == Repeat(" ", leftPad) \o value \o Repeat(" ", rightPad)
         IN ReplaceFirst(line, slot.Placeholder, centered)

\* the columns ToCanvasStyled marks for a slot (eyeCells / mouthCells of its row)
SlotCells(origLine, slot, value) ==
    LET placeholderIdx == Index(origLine, slot.Placeholder)
        valueWidth == StringWidth(value)
        slotWidth == IF slot.Width < valueWidth THEN valueWidth ELSE slot.Width
    IN IF placeholderIdx >= 0
       THEN {placeholderIdx + i : i \in 0..(slotWidth - 1)}
       ELSE {}

\* the drawing loop of one row: one column per rune
RECURSIVE DrawRow(_, _, _, _, _, _, _)
DrawRow(canvas, y, line, col, eyeCols, mouthCols, styles) ==
    IF col >= Len(line) THEN canvas
    ELSE LET cellStyle == IF col \in eyeCols THEN styles.Eyes
                          ELSE IF col \in mouthCols THEN styles.Mouth
                          ELSE styles.Outline
         IN DrawRow(Set(canvas, col, y, line[col + 1], cellStyle),
                    y, line, col + 1, eyeCols, mouthCols, styles)

RECURSIVE DrawRows(_, _, _, _, _, _, _)
DrawRows(canvas, lines, y, eyeLine, eyeCols, mouthLine, mouthCols) ==
    IF y >= Len(lines) THEN canvas
    ELSE DrawRows(DrawRow(canvas, y, lines[y + 1], 0,
                          IF y = eyeLine THEN eyeCols ELSE {},
                          IF y = mouthLine THEN mouthCols ELSE {},
                          [Outline |-> "outline", Eyes |-> "eyes", Mouth |-> "mouth"]),
                  lines, y + 1, eyeLine, eyeCols, mouthLine, mouthCols)

ToCanvasStyled(ch, eyes, mouth) ==
    IF Len(ch.Art) = 0 THEN NewCanvas(1, 1)
    ELSE LET maxWidth == IF MaxLineWidth(ch.Art) = 0 THEN 1 ELSE MaxLineWidth(ch.Art)
             canvas == NewCanvas(maxWidth, Len(ch.Art))
             useEyes == ~ch.Eyes.isNil /\ ch.Eyes.Line < Len(ch.Art)
             lines1 == IF useEyes
                       THEN [ch.Art EXCEPT ![ch.Eyes.Line + 1] =
                                replaceSlot(ch.Art[ch.Eyes.Line + 1], ch.Eyes, eyes)]
                       ELSE ch.Art
             eyeCols == IF useEyes
                        THEN SlotCells(ch.Art[ch.Eyes.Line + 1], ch.Eyes, eyes)
                        ELSE {}
             useMouth == ~ch.Mouth.isNil /\ ch.Mouth.Line < Len(ch.Art)
             lines2 == IF useMouth
                       THEN [lines1 EXCEPT ![ch.Mouth.Line + 1] =
                                replaceSlot(lines1[ch.Mouth.Line + 1], ch.Mouth, mouth)]
                       ELSE lines1
             mouthCols == IF useMouth
                          THEN SlotCells(lines1[ch.Mouth.Line + 1], ch.Mouth, mouth)
                          ELSE {}
         IN DrawRows(canvas, lines2, 0,
                     IF useEyes THEN ch.Eyes.Line ELSE -1, eyeCols,
                     IF useMouth THEN ch.Mouth.Line ELSE -1, mouthCols)

\* the index expressions lines[ch.Eyes.Line] and lines[ch.Mouth.Line] are
\* guarded by Line < len(lines) only: a negative Line is an index out of range
SlotIndexPanics(ch) ==
    /\ Len(ch.Art) > 0
    /\ \/ ~ch.Eyes.isNil /\ ch.Eyes.Line < 0
       \/ ~ch.Mouth.isNil /\ ch.Mouth.Line < 0

\* the outcome of a call ch.ToCanvasStyled(eyes, mouth, styles): the canvas
\* returned, or a run-time panic
CallToCanvasStyled(ch, eyes, mouth) ==
    IF SlotIndexPanics(ch)
    THEN [panic |-> TRUE, canvas |-> NilCanvas]
    ELSE [panic |-> FALSE, canvas |-> ToCanvasStyled(ch, eyes, mouth)]

(***************************************************************************)
(* FramePlayer (frames.go)                                                 *)
(***************************************************************************)
\* the character and default expression the players of this model are built with
BaseCharacter ==
    [Art |-> << <<"(", "@", "@", ")">> >>,
     Eyes |-> [isNil |-> FALSE, Line |-> 0, Col |-> 1, Width |-> 2,
               Placeholder |-> <<"@", "@">>],
     Mouth |-> NoSlot,
     Anchor |-> [X |-> 0, Y |-> 0]]

DefaultEyes == <<"o", "o">>

DefaultMouth == <<>>

\* what a frame may override: nothing, the eyes, or the art together with an offset
FrameLooks ==
    << [Art |-> <<>>, Eyes |-> <<>>, Mouth |-> <<>>, OffsetX |-> 0, OffsetY |-> 0],
       [Art |-> <<>>, Eyes |-> <<"-", "-">>, Mouth |-> <<>>, OffsetX |-> 0, OffsetY |-> 0],
       [Art |-> << <<"\\", "@", "@", "/">> >>, Eyes |-> <<>>, Mouth |-> <<>>,
        OffsetX |-> 0, OffsetY |-> 1] >>

AnimationFrame(d, l) ==
    [DurationMs |-> d, Art |-> l.Art, Eyes |-> l.Eyes, Mouth |-> l.Mouth,
     OffsetX |-> l.OffsetX, OffsetY |-> l.OffsetY]

NilAnimation == [isNil |-> TRUE, Frames |-> <<>>, Loop |-> FALSE]

\* the animation sequences a player is given: nil, no frames, or 1..MaxFrames frames
\* of any durations in 1..MaxDur, consecutive frames taking consecutive looks
Animations ==
    {NilAnimation, [isNil |-> FALSE, Frames |-> <<>>, Loop |-> FALSE]}
    \cup { [isNil |-> FALSE,
            Frames |-> [i \in DOMAIN ds |->
                          AnimationFrame(ds[i],
                              FrameLooks[((i - 1 + s) % Len(FrameLooks)) + 1])],
            Loop |-> l] :
             ds \in UNION {[1..n -> 1..MaxDur] : n \in 1..MaxFrames},
             s \in 0..(Len(FrameLooks) - 1),
             l \in BOOLEAN }

\* the sequences SetAnimation is called with: those whose frames all last MaxDur
SwitchAnimations ==
    {a \in Animations : \A i \in DOMAIN a.Frames : a.Frames[i].DurationMs = MaxDur}

\* no Tick call is in progress
NoTick == [at |-> "idle", delta |-> 0, before |-> <<0, 0, FALSE>>,
           currentFrameDuration |-> 0, odd |-> FALSE]

NewFramePlayer(anim) ==
    [animation |-> anim, currentFrame |-> 0, elapsed |-> 0, done |-> FALSE]

renderFrame(anim, frameIdx) ==
    IF anim.isNil \/ Len(anim.Frames) = 0
    THEN ToCanvasStyled(BaseCharacter, DefaultEyes, DefaultMouth)
    ELSE LET idx == IF frameIdx < 0 \/ frameIdx >= Len(anim.Frames) THEN 0 ELSE frameIdx
             frame == anim.Frames[idx + 1]
             charToRender == IF Len(frame.Art) > 0
                             THEN [BaseCharacter EXCEPT !.Art = frame.Art]
                             ELSE BaseCharacter
             eyes == IF frame.Eyes # <<>> THEN frame.Eyes ELSE DefaultEyes
             mouth == IF frame.Mouth # <<>> THEN frame.Mouth ELSE DefaultMouth
             charCanvas == ToCanvasStyled(charToRender, eyes, mouth)
         IN IF frame.OffsetX # 0 \/ frame.OffsetY # 0
            THEN LET width == charCanvas.Width + abs(frame.OffsetX)
                     height == charCanvas.Height + abs(frame.OffsetY)
                     x == IF frame.OffsetX > 0 THEN frame.OffsetX ELSE 0
                     y == IF frame.OffsetY > 0 THEN frame.OffsetY ELSE 0
                 IN Overlay(NewCanvas(width, height), charCanvas, x, y)
            ELSE charCanvas

FrameDuration(anim, i) == anim.Frames[i + 1].DurationMs

\* the frame-advance loop of Tick
RECURSIVE AdvanceFrames(_, _, _, _)
AdvanceFrames(anim, cf, el, currentFrameDuration) ==
    IF el >= currentFrameDuration
    THEN LET el2 == el - currentFrameDuration
             cf2 == cf + 1
         IN IF cf2 >= Len(anim.Frames)
            THEN IF anim.Loop
                 THEN AdvanceFrames(anim, 0, el2, FrameDuration(anim, 0))
                 ELSE [currentFrame |-> Len(anim.Frames) - 1, elapsed |-> el2,
                       done |-> TRUE]
            ELSE AdvanceFrames(anim, cf2, el2, FrameDuration(anim, cf2))
    ELSE [currentFrame |-> cf, elapsed |-> el, done |-> FALSE]

\* Tick with the frame advanced only when elapsed exceeds the duration
RECURSIVE AdvanceFramesLate(_, _, _, _)
AdvanceFramesLate(anim, cf, el, currentFrameDuration) ==
    IF el > currentFrameDuration
    THEN LET el2 == el - currentFrameDuration
             cf2 == cf + 1
         IN IF cf2 >= Len(anim.Frames)
            THEN IF anim.Loop
                 THEN AdvanceFramesLate(anim, 0, el2, FrameDuration(anim, 0))
                 ELSE [currentFrame |-> Len(anim.Frames) - 1, elapsed |-> el2,
                       done |-> TRUE]
            ELSE AdvanceFramesLate(anim, cf2, el2, FrameDuration(anim, cf2))
    ELSE [currentFrame |-> cf, elapsed |-> el, done |-> FALSE]

TickLate(fp, delta) ==
    IF fp.done \/ fp.animation.isNil \/ Len(fp.animation.Frames) = 0
    THEN [player |-> fp, canvas |-> renderFrame(fp.animation, 0)]
    ELSE LET adv == AdvanceFramesLate(fp.animation, fp.currentFrame, fp.elapsed + delta,
                                      FrameDuration(fp.animation, fp.currentFrame))
             fp2 == [fp EXCEPT !.currentFrame = adv.currentFrame,
                               !.elapsed = adv.elapsed, !.done = adv.done]
         IN [player |-> fp2, canvas |-> renderFrame(fp2.animation, fp2.currentFrame)]

\* Tick with the time left over in a frame dropped when the sequence wraps
TickDropOnWrap(fp, delta) ==
    IF fp.done \/ fp.animation.isNil \/ Len(fp.animation.Frames) = 0
    THEN [player |-> fp, canvas |-> renderFrame(fp.animation, 0)]
    ELSE LET adv == AdvanceFrames(fp.animation, fp.currentFrame, fp.elapsed + delta,
                                  FrameDuration(fp.animation, fp.currentFrame))
             wrapped == fp.animation.Loop /\ adv.currentFrame < fp.currentFrame
             fp2 == [fp EXCEPT !.currentFrame = adv.currentFrame,
                               !.elapsed = IF wrapped THEN 0 ELSE adv.elapsed,
                               !.done = adv.done]
         IN [player |-> fp2, canvas |-> renderFrame(fp2.animation, fp2.currentFrame)]

\* Tick(delta): the player after the call and the canvas it returns
Tick(fp, delta) ==
    IF fp.done \/ fp.animation.isNil \/ Len(fp.animation.Frames) = 0
    THEN [player |-> fp, canvas |-> renderFrame(fp.animation, 0)]
    ELSE LET adv == AdvanceFrames(fp.animation, fp.currentFrame, fp.elapsed + delta,
                                  FrameDuration(fp.animation, fp.currentFrame))
             fp2 == [fp EXCEPT !.currentFrame = adv.currentFrame,
                               !.elapsed = adv.elapsed, !.done = adv.done]
         IN [player |-> fp2, canvas |-> renderFrame(fp2.animation, fp2.currentFrame)]

\* Reset that leaves the done flag as it is
ResetKeepDone(fp) == [fp EXCEPT !.currentFrame = 0, !.elapsed = 0]

Reset(fp) == [fp EXCEPT !.currentFrame = 0, !.elapsed = 0, !.done = FALSE]

\* SetAnimation that does not reset the playback
SetAnimationKeepCursor(fp, anim) == [fp EXCEPT !.animation = anim]

SetAnimation(fp, anim) == Reset([fp EXCEPT !.animation = anim])

IsComplete(fp) == fp.done

CurrentFrameIndex(fp) == fp.currentFrame

(***************************************************************************)
(* The compositor (compositor.go): bubble, connector and character         *)
(***************************************************************************)
\* the built-in "say" template
SayTemplate ==
    [TopBorder |-> "_", BottomBorder |-> "-",
     TopLeftCorner |-> <<>>, TopRightCorner |-> <<>>,
     BottomLeftCorner |-> <<>>, BottomRightCorner |-> <<>>,
     SingleLeft |-> "<", SingleRight |-> ">",
     MultiFirst |-> <<"/", "\\">>, MultiMiddle |-> <<"|", "|">>,
     MultiLast |-> <<"\\", "/">>,
     Connector |-> "\\", Prefix |-> <<>>, Suffix |-> <<>>, BorderDecorator |-> <<>>]

\* the built-in "song" template; NOTE8 and NOTE16 are the two note symbols
SongTemplate ==
    [TopBorder |-> "~", BottomBorder |-> "~",
     TopLeftCorner |-> <<>>, TopRightCorner |-> <<>>,
     BottomLeftCorner |-> <<>>, BottomRightCorner |-> <<>>,
     SingleLeft |-> "NOTE8", SingleRight |-> "NOTE16",
     MultiFirst |-> <<"NOTE8", "NOTE16">>, MultiMiddle |-> <<"NOTE16", "NOTE8">>,
     MultiLast |-> <<"NOTE8", "NOTE16">>,
     Connector |-> "NOTE8", Prefix |-> <<"NOTE8", " ">>, Suffix |-> <<" ", "NOTE16">>,
     BorderDecorator |-> <<"NOTE8">>]

\* the bubble styles the model renders
BubbleStyles == {"BubbleStyleSay", "BubbleStyleSong"}

GetTemplateForBubbleStyle(style) ==
    IF style = "BubbleStyleSong" THEN SongTemplate ELSE SayTemplate

\* repeat(s, n): n copies of the string s
RECURSIVE repeat(_, _)
repeat(str, n) == IF n <= 0 THEN <<>> ELSE str \o repeat(str, n - 1)

padRight(str, width) ==
    IF StringWidth(str) >= width THEN str
    ELSE str \o repeat(<<" ">>, width - StringWidth(str))

RECURSIVE splitWordsFrom(_, _, _)
splitWordsFrom(text, current, words) ==
    IF text = <<>>
    THEN IF current # <<>> THEN Append(words, current) ELSE words
    ELSE IF Head(text) \in {" ", "\t", "\n"}
         THEN splitWordsFrom(Tail(text), <<>>,
                             IF current # <<>> THEN Append(words, current) ELSE words)
         ELSE splitWordsFrom(Tail(text), Append(current, Head(text)), words)

splitWords(text) == splitWordsFrom(text, <<>>, <<>>)

RECURSIVE wrapWords(_, _, _, _)
wrapWords(words, current, lines, width) ==
    IF words = <<>>
    THEN IF current # <<>> THEN Append(lines, current) ELSE lines
    ELSE IF current = <<>>
         THEN wrapWords(Tail(words), Head(words), lines, width)
         ELSE IF StringWidth(current \o <<" ">> \o Head(words)) <= width
              THEN wrapWords(Tail(words), current \o <<" ">> \o Head(words), lines, width)
              ELSE wrapWords(Tail(words), Head(words), Append(lines, current), width)

wrapText(text, width) ==
    IF text = <<>> THEN <<>>
    ELSE IF splitWords(text) = <<>> THEN <<>>
    ELSE wrapWords(splitWords(text), <<>>, <<>>, width)

\* the decorator takes every fifth place strictly inside the border
buildDecoratedBorder(borderChar, length, decorator) ==
    IF length <= 0 THEN <<>>
    ELSE [k \in 1..length |->
            IF k - 1 > 0 /\ k - 1 < length - 1 /\ (k - 1) % 5 = 0
            THEN decorator[1] ELSE borderChar]

buildBorder(borderChar, length, leftCorner, rightCorner, decorator) ==
    (IF leftCorner = <<>> THEN <<" ">> ELSE leftCorner)
    \o (IF decorator # <<>>
        THEN buildDecoratedBorder(borderChar, length, decorator)
        ELSE repeat(<<borderChar>>, length))
    \o (IF rightCorner = <<>> THEN <<" ">> ELSE rightCorner)

\* the content rows of a bubble around the wrapped lines, maxLen their width
BubbleRows(lines, maxLen, tmpl) ==
    IF Len(lines) = 1
    THEN << <<tmpl.SingleLeft, " ">> \o padRight(lines[1], maxLen)
            \o <<" ", tmpl.SingleRight>> >>
    ELSE [i \in 1..Len(lines) |->
            LET delim == IF i = 1 THEN tmpl.MultiFirst
                         ELSE IF i = Len(lines) THEN tmpl.MultiLast
                         ELSE tmpl.MultiMiddle
            IN <<delim[1], " ">> \o padRight(lines[i], maxLen) \o <<" ", delim[2]>>]

\* renderBubbleWithTemplate once the text is wrapped
BubbleAround(lines, tmpl) ==
    << buildBorder(tmpl.TopBorder, MaxLineWidth(lines) + 2,
                   tmpl.TopLeftCorner, tmpl.TopRightCorner, tmpl.BorderDecorator) >>
    \o BubbleRows(lines, MaxLineWidth(lines), tmpl)
    \o << buildBorder(tmpl.BottomBorder, MaxLineWidth(lines) + 2,
                      tmpl.BottomLeftCorner, tmpl.BottomRightCorner,
                      tmpl.BorderDecorator) >>

renderBubbleWithTemplate(text, width, tmpl) ==
    BubbleAround(IF Len(wrapText(tmpl.Prefix \o text \o tmpl.Suffix, width)) = 0
                 THEN << <<>> >>
                 ELSE wrapText(tmpl.Prefix \o text \o tmpl.Suffix, width),
                 tmpl)

RenderBubble(text, width, color) ==
    FromLines(renderBubbleWithTemplate(text, width, SayTemplate), color)

\* RenderBubble for any bubble style
RenderBubbleWithStyle(text, width, style, color) ==
    FromLines(renderBubbleWithTemplate(text, width, GetTemplateForBubbleStyle(style)), color)

\* ---- bubble.RenderWithTemplate (bubble/renderer.go): words by
\* strings.Fields, widths counted in runes ----
IsSpaceRune(r) == r \in {" ", "\t", "\n", "\r"}

RECURSIVE FieldsFrom(_, _, _)
FieldsFrom(text, current, words) ==
    IF text = <<>>
    THEN IF current # <<>> THEN Append(words, current) ELSE words
    ELSE IF IsSpaceRune(Head(text))
         THEN FieldsFrom(Tail(text), <<>>,
                         IF current # <<>> THEN Append(words, current) ELSE words)
         ELSE FieldsFrom(Tail(text), Append(current, Head(text)), words)

\* strings.Fields
Fields(text) == FieldsFrom(text, <<>>, <<>>)

RECURSIVE wrapRunes(_, _, _, _)
wrapRunes(words, current, lines, width) ==
    IF words = <<>>
    THEN IF current # <<>> THEN Append(lines, current) ELSE lines
    ELSE IF current = <<>>
         THEN wrapRunes(Tail(words), Head(words), lines, width)
         ELSE IF Len(current) + 1 + Len(Head(words)) <= width
              THEN wrapRunes(Tail(words), current \o <<" ">> \o Head(words), lines, width)
              ELSE wrapRunes(Tail(words), Head(words), Append(lines, current), width)

wrapTextForBubble(text, width) ==
    IF text = <<>> THEN <<>>
    ELSE IF Fields(text) = <<>> THEN <<>>
    ELSE wrapRunes(Fields(text), <<>>, <<>>, width)

padRightRunes(str, width) ==
    IF Len(str) >= width THEN str ELSE str \o repeat(<<" ">>, width - Len(str))

RECURSIVE MaxRuneCount(_)
MaxRuneCount(lines) ==
    IF lines = <<>> THEN 0 ELSE Max(Len(Head(lines)), MaxRuneCount(Tail(lines)))

\* the content rows, the lines padded to maxLen runes
RuneRows(lines, maxLen, single, first, middle, last) ==
    IF Len(lines) = 1
    THEN << <<single[1], " ">> \o padRightRunes(lines[1], maxLen) \o <<" ", single[2]>> >>
    ELSE [i \in 1..Len(lines) |->
            LET delim == IF i = 1 THEN first
                         ELSE IF i = Len(lines) THEN last
                         ELSE middle
            IN <<delim[1], " ">> \o padRightRunes(lines[i], maxLen) \o <<" ", delim[2]>>]

RuneBubbleAround(lines, tmpl) ==
    << buildBorder(tmpl.TopBorder, MaxRuneCount(lines) + 2,
                   tmpl.TopLeftCorner, tmpl.TopRightCorner, tmpl.BorderDecorator) >>
    \o RuneRows(lines, MaxRuneCount(lines), <<tmpl.SingleLeft, tmpl.SingleRight>>,
                tmpl.MultiFirst, tmpl.MultiMiddle, tmpl.MultiLast)
    \o << buildBorder(tmpl.BottomBorder, MaxRuneCount(lines) + 2,
                      tmpl.BottomLeftCorner, tmpl.BottomRightCorner,
                      tmpl.BorderDecorator) >>

RenderWithTemplate(text, width, tmpl) ==
    RuneBubbleAround(IF Len(wrapTextForBubble(tmpl.Prefix \o text \o tmpl.Suffix, width)) = 0
                     THEN << <<>> >>
                     ELSE wrapTextForBubble(tmpl.Prefix \o text \o tmpl.Suffix, width),
                     tmpl)

\* ---- Bubble (bubble.go): New and Render ----
DefaultWidth == 40

BubbleNew(text, width) == [Text |-> text, Width |-> IF width <= 0 THEN DefaultWidth ELSE width]

\* b.wrapText: as wrapTextForBubble, without the test for the empty text
BubbleWrapText(text, width) ==
    IF Fields(text) = <<>> THEN <<>> ELSE wrapRunes(Fields(text), <<>>, <<>>, width)

\* Bubble.Render once the text is wrapped
BubbleRenderLines(lines) ==
    IF Len(lines) = 0 THEN <<>>
    ELSE << <<" ">> \o repeat(<<"_">>, MaxRuneCount(lines) + 2) >>
         \o RuneRows(lines, MaxRuneCount(lines), <<"<", ">">>,
                     <<"/", "\\">>, <<"|", "|">>, <<"\\", "/">>)
         \o << <<" ">> \o repeat(<<"-">>, MaxRuneCount(lines) + 2) >>

BubbleRender(b) == BubbleRenderLines(BubbleWrapText(b.Text, b.Width))

\* strings.TrimRight(line, " ")
RECURSIVE TrimRight(_)
TrimRight(line) ==
    IF line # <<>> /\ line[Len(line)] = " "
    THEN TrimRight(SubSeq(line, 1, Len(line) - 1))
    ELSE line

generateConnector(char, length, anchorX, style) ==
    FromLines([k \in 1..length |-> repeat(<<" ">>, Max(anchorX + (k - 1), 0)) \o <<char>>],
              style)

generateConnectorUp(char, length, anchorX, style) ==
    FromLines([k \in 1..length |->
                 repeat(<<" ">>, Max(anchorX + (length - 1 - (k - 1)), 0)) \o <<char>>],
              style)

generateConnectorLeft(char, length, style) ==
    FromLines(<< TrimRight(repeat(<<char, " ">>, length)) >>, style)

generateConnectorRight(char, length, anchorX, style) ==
    FromLines(<< repeat(<<" ">>, anchorX) \o repeat(<<" ", char>>, length) >>, style)

generateConnectorWithDirection(char, length, anchorX, direction, style) ==
    CASE direction = "TailUp" -> generateConnectorUp(char, length, anchorX, style)
      [] direction = "TailLeft" -> generateConnectorLeft(char, length, style)
      [] direction = "TailRight" -> generateConnectorRight(char, length, anchorX, style)
      [] OTHER -> generateConnector(char, length, anchorX, style)

\* a composeWithDirection that arranges the up case as the down case
composeWithDirectionDownOnly(bubbleCanvas, connectorCanvas, charCanvas, cfg) ==
    CASE cfg.TailDirection = "TailLeft" ->
            Merge(charCanvas, Merge(connectorCanvas, bubbleCanvas, 1), 2)
      [] cfg.TailDirection = "TailRight" ->
            Merge(bubbleCanvas, Merge(connectorCanvas, charCanvas, 1), 2)
      [] OTHER ->
            IF cfg.Layout = "LayoutHorizontal"
            THEN Merge(Stack(bubbleCanvas, connectorCanvas, 0), charCanvas, 2)
            ELSE Stack(Stack(bubbleCanvas, connectorCanvas, 0), charCanvas, 0)

composeWithDirection(bubbleCanvas, connectorCanvas, charCanvas, cfg) ==
    CASE cfg.TailDirection = "TailUp" ->
            Stack(Stack(charCanvas, connectorCanvas, 0), bubbleCanvas, 0)
      [] cfg.TailDirection = "TailLeft" ->
            Merge(charCanvas, Merge(connectorCanvas, bubbleCanvas, 1), 2)
      [] cfg.TailDirection = "TailRight" ->
            Merge(bubbleCanvas, Merge(connectorCanvas, charCanvas, 1), 2)
      [] OTHER ->
            IF cfg.Layout = "LayoutHorizontal"
            THEN Merge(Stack(bubbleCanvas, connectorCanvas, 0), charCanvas, 2)
            ELSE Stack(Stack(bubbleCanvas, connectorCanvas, 0), charCanvas, 0)

Compose(text, char, eyes, mouth, cfg) ==
    composeWithDirection(
        RenderBubble(text, IF cfg.BubbleWidth <= 0 THEN 40 ELSE cfg.BubbleWidth, NoStyle),
        generateConnectorWithDirection(
            SayTemplate.Connector,
            IF cfg.ConnectorLen <= 0 THEN 2 ELSE cfg.ConnectorLen,
            char.Anchor.X, cfg.TailDirection, NoStyle),
        ToCanvasStyled(char, eyes, mouth),
        cfg)

\* the loop of ComposeMultiPanel from panel i on, result the panels merged so far
RECURSIVE MergePanels(_, _, _, _)
MergePanels(panels, cfg, i, result) ==
    IF i > Len(panels) THEN result
    ELSE MergePanels(panels, cfg, i + 1,
                     Merge(result,
                           Compose(panels[i].Text, panels[i].Character,
                                   panels[i].Eyes, panels[i].Mouth, cfg),
                           3))

\* a ComposeMultiPanel that returns after the first panel
ComposeMultiPanelFirstOnly(panels, cfg) ==
    IF Len(panels) = 0 THEN NewCanvas(1, 1)
    ELSE Compose(panels[1].Text, panels[1].Character, panels[1].Eyes, panels[1].Mouth, cfg)

ComposeMultiPanel(panels, cfg) ==
    IF Len(panels) = 0 THEN NewCanvas(1, 1)
    ELSE MergePanels(panels, cfg, 2,
                     Compose(panels[1].Text, panels[1].Character,
                             panels[1].Eyes, panels[1].Mouth, cfg))

(***************************************************************************)
(* Canvases as objects.  A *Canvas is a pointer: its Width and Height and  *)
(* the number of the storage that holds its Cells.  NewCanvas allocates    *)
(* fresh storage; Set and Overlay write into the receiver's storage.       *)
(***************************************************************************)
NilRef == [isNil |-> TRUE, Width |-> 0, Height |-> 0, store |-> 0]

\* the canvas a pointer denotes in heap h
Deref(h, c) ==
    IF c.isNil THEN NilCanvas
    ELSE [isNil |-> FALSE, Width |-> c.Width, Height |-> c.Height, Cells |-> h[c.store]]

\* make([][]Cell, ...) in NewCanvas: new storage holding the cells of v
AllocCanvas(h, v) ==
    [heap |-> Append(h, v.Cells),
     ref |-> [isNil |-> FALSE, Width |-> v.Width, Height |-> v.Height,
              store |-> Len(h) + 1]]

NewCanvasRef(h, width, height) == AllocCanvas(h, NewCanvas(width, height))

\* c.Set writes into the storage of c
SetRef(h, c, x, y, r, style) ==
    [h EXCEPT ![c.store] = Set(Deref(h, c), x, y, r, style).Cells]

\* c.Overlay(other, x, y), other not the receiver itself: writes into the
\* storage of c only
OverlayRef(h, c, other, x, y) ==
    [h EXCEPT ![c.store] = Overlay(Deref(h, c), Deref(h, other), x, y).Cells]

\* a Clone that hands back the receiver's own storage
CloneRefShared(h, c) == [heap |-> h, ref |-> c]

\* c.Clone(): NewCanvas, then the cells copied one by one
CloneRef(h, c) == AllocCanvas(h, Clone(Deref(h, c)))

\* Merge: NewCanvas(1,1), a Clone, or a NewCanvas overlaid with both
MergeRef(h, left, right, gap) ==
    IF left.isNil /\ right.isNil THEN NewCanvasRef(h, 1, 1)
    ELSE IF left.isNil THEN CloneRef(h, right)
    ELSE IF right.isNil THEN CloneRef(h, left)
    ELSE AllocCanvas(h, Merge(Deref(h, left), Deref(h, right), gap))

StackRef(h, top, bottom, gap) ==
    IF top.isNil /\ bottom.isNil THEN NewCanvasRef(h, 1, 1)
    ELSE IF top.isNil THEN CloneRef(h, bottom)
    ELSE IF bottom.isNil THEN CloneRef(h, top)
    ELSE AllocCanvas(h, Stack(Deref(h, top), Deref(h, bottom), gap))

ResizeRef(h, c, newWidth, newHeight) ==
    AllocCanvas(h, Resize(Deref(h, c), newWidth, newHeight))

\* ---- the canvases and inputs the operations are applied to ----
\* a canvas of the given size: "clear" (every cell transparent) or "checked"
\* (cells with x + y even hold rune r, the others are transparent)
Pattern(kind, w, h, r) ==
    [isNil |-> FALSE, Width |-> w, Height |-> h,
     Cells |-> [y \in 0..(h - 1) |-> [x \in 0..(w - 1) |->
                  IF kind = "checked" /\ (x + y) % 2 = 0
                  THEN [Rune |-> r, Style |-> NoStyle, Transparent |-> FALSE]
                  ELSE TransparentCell]]]

Operands(r) ==
    {NilCanvas} \cup {Pattern(kind, w, h, r) :
                        kind \in {"clear", "checked"}, w \in 1..MaxDim, h \in 1..MaxDim}

NoOp == [name |-> "none", p |-> 0, q |-> 0, args |-> <<>>]

NoSnap == [a |-> NilCanvas, b |-> NilCanvas, res |-> NilCanvas]

\* no canvas is held: the state of the canvas variables outside this scenario
CanvasIdle ==
    /\ heap = <<>>
    /\ canvasA = NilRef
    /\ canvasB = NilRef
    /\ returned = NilRef
    /\ op = NoOp
    /\ snap = NoSnap
    /\ probe = "none"
    /\ got = TransparentCell

\* no function has been called
NoCall == [name |-> "none", args |-> <<>>]

\* the goroutines that render at the same time
Goroutines == {"g1", "g2"}

\* a goroutine is idle, or inside an access ("read" / "write") of one of the
\* package variables, or waiting for the write lock ("lock")
IdleGoroutine == [at |-> "idle", on |-> "", name |-> ""]

\* the package variables of the embedded character store as declared, no
\* goroutine inside a call
EmbedIdle ==
    /\ embeddedFS = "none"
    /\ characterListCache = <<>>
    /\ characterListOnce = "fresh"
    /\ characterCacheMu = [readers |-> {}, writer |-> FALSE]
    /\ goroutines = [g \in Goroutines |-> IdleGoroutine]
    /\ fatal = FALSE

CallIdle ==
    /\ call = NoCall
    /\ callResult = <<>>
    /\ characterCache = {}
    /\ templateCache = {}
    /\ EmbedIdle

\* the texts, characters and configurations Compose is called with
Texts == { <<>>, <<"h", "i">>, <<"h", "i", " ", "y", "o">>, <<" ">>, <<"W">> }

BlankCharacter == [BaseCharacter EXCEPT !.Art = <<>>]

Characters ==
    {BaseCharacter, [BaseCharacter EXCEPT !.Anchor.X = 1], BlankCharacter,
     [BaseCharacter EXCEPT !.Art = << <<>> >>]}

CompositorConfigs ==
    [BubbleWidth : {0, 2, 5}, ConnectorLen : {0, 1},
     TailDirection : {"TailDown", "TailUp", "TailLeft", "TailRight"},
     Layout : {"LayoutVertical", "LayoutHorizontal"}]

PanelConfigs ==
    {[Text |-> t, Character |-> c, Eyes |-> DefaultEyes, Mouth |-> DefaultMouth] :
        t \in {<<>>, <<"h", "i", " ", "y", "o">>}, c \in {BaseCharacter, BlankCharacter}}

PanelLists ==
    {<<>>} \cup {<<x>> : x \in PanelConfigs} \cup {<<x, y>> : x, y \in PanelConfigs}

LineLists ==
    { <<>>, << <<>> >>, << <<"a">> >>, << <<"a", "b">>, <<>>, <<"W">> >> }

(***************************************************************************)
(* The tick loop: CharacterModel (character animation) and Model (typing   *)
(* animation).  A rendered line is a sequence of styled symbols.           *)
(***************************************************************************)
\* the count both models assign on a key press to show all text
ShowAll == 1000000

\* config.FrameRate, the tick period: the unit of time
FrameRate == 1

\* len(line): the bytes of the symbols (the styles of this model add no markup)
RECURSIVE LineLen(_)
LineLen(line) == IF line = <<>> THEN 0 ELSE ByteLen(Head(line).Rune) + LineLen(Tail(line))

RECURSIVE TotalChars(_)
TotalChars(lines) == IF lines = <<>> THEN 0 ELSE LineLen(Head(lines)) + TotalChars(Tail(lines))

Cursor == [Rune |-> "CURSOR", Style |-> NoStyle]

Newline == [Rune |-> "\n", Style |-> NoStyle]

\* strings.Join(lines, "\n")
RECURSIVE Join(_)
Join(lines) ==
    IF lines = <<>> THEN <<>>
    ELSE IF Len(lines) = 1 THEN Head(lines)
    ELSE Head(lines) \o <<Newline>> \o Join(Tail(lines))

\* the pre-rendered bubble of an empty message and the two-row connector
BubbleCanvas ==
    FromLines(<< <<" ", "_", "_", " ">>, <<"<", " ", " ", ">">>, <<" ", "-", "-", " ">> >>,
              NoStyle)

ConnCanvas == FromLines(<< <<"\\">>, <<" ", "\\">> >>, NoStyle)

NewCharacterModel(cfg) ==
    [typingEnabled |-> cfg.TypingSpeed > 0,
     typingIndex |-> 0,
     typingDone |-> cfg.TypingSpeed = 0,
     lastTypingTick |-> 0,
     startTime |-> 0,
     totalDuration |-> 0,
     done |-> FALSE]

\* m.framePlayer != nil
HasPlayer(fp) == ~fp.animation.isNil

\* the lines View and getTotalChars render: bubble, connector, current frame
CharLines(fp) ==
    LET charCanvas == IF HasPlayer(fp) THEN Tick(fp, 0).canvas
                      ELSE ToCanvasStyled(BaseCharacter, DefaultEyes, DefaultMouth)
    IN Render(Stack(Stack(BubbleCanvas, ConnCanvas, 0), charCanvas, 0))

\* the player after the Tick(0) that View and getTotalChars make
AfterRender(fp) == IF HasPlayer(fp) THEN Tick(fp, 0).player ELSE fp

getTotalChars(fp) == TotalChars(CharLines(fp))

\* line[:n]: the first n bytes of a line; a rune cut inside its encoding leaves
\* a fragment
RECURSIVE BytePrefix(_, _)
BytePrefix(line, n) ==
    IF n <= 0 \/ line = <<>> THEN <<>>
    ELSE IF ByteLen(Head(line).Rune) <= n
         THEN <<Head(line)>> \o BytePrefix(Tail(line), n - ByteLen(Head(line).Rune))
         ELSE << [Rune |-> "FRAGMENT", Style |-> NoStyle] >>

RECURSIVE applyTypingEffectFrom(_, _, _)
applyTypingEffectFrom(lines, typingIndex, charCount) ==
    IF lines = <<>> \/ charCount >= typingIndex THEN <<>>
    ELSE LET line == Head(lines)
             lineLen == LineLen(line)
         IN IF charCount + lineLen <= typingIndex
            THEN <<line>> \o applyTypingEffectFrom(Tail(lines), typingIndex,
                                                   charCount + lineLen)
            ELSE LET rem == typingIndex - charCount
                     remaining == IF rem > lineLen THEN lineLen ELSE rem
                 IN << BytePrefix(line, remaining) \o <<Cursor>> >>

applyTypingEffect(cm, lines) == applyTypingEffectFrom(lines, cm.typingIndex, 0)

CharView(cm, fp) ==
    LET lines == CharLines(fp)
    IN Join(IF cm.typingEnabled /\ ~cm.typingDone
            THEN applyTypingEffect(cm, lines)
            ELSE lines)

\* a typing step that compares the count before the increment with the total
TypingStepLateMark(cm, fp, cfg, t) ==
    IF cm.typingEnabled /\ ~cm.typingDone
       /\ (cm.lastTypingTick = 0 \/ t - cm.lastTypingTick >= cfg.TypingSpeed)
    THEN [cm |-> [cm EXCEPT !.typingIndex = cm.typingIndex + 1,
                            !.lastTypingTick = t,
                            !.typingDone = (cm.typingIndex >= getTotalChars(fp))],
          fp |-> AfterRender(fp)]
    ELSE [cm |-> cm, fp |-> fp]

\* Update(CharacterTickMsg(t)): the typing step
TypingStep(cm, fp, cfg, t) ==
    IF cm.typingEnabled /\ ~cm.typingDone
       /\ (cm.lastTypingTick = 0 \/ t - cm.lastTypingTick >= cfg.TypingSpeed)
    THEN [cm |-> [cm EXCEPT !.typingIndex = cm.typingIndex + 1,
                            !.lastTypingTick = t,
                            !.typingDone = (cm.typingIndex + 1 >= getTotalChars(fp))],
          fp |-> AfterRender(fp)]
    ELSE [cm |-> cm, fp |-> fp]

\* Update(CharacterTickMsg(t)), the duration limit: startTime and totalDuration
DurationStep(cm, cfg, t) ==
    IF cfg.Duration > 0
    THEN [cm EXCEPT !.startTime = IF cm.totalDuration = 0 THEN t ELSE cm.startTime,
                    !.totalDuration =
                        t - (IF cm.totalDuration = 0 THEN t ELSE cm.startTime)]
    ELSE cm

\* Update(CharacterTickMsg(t)), the exit check after typing and frame advance
ExitStep(cm, fp, cfg) ==
    IF HasPlayer(fp) /\ IsComplete(fp) /\ cm.typingDone
       /\ cfg.Duration = 0 /\ ~fp.animation.Loop
    THEN [cm |-> [cm EXCEPT !.done = TRUE], fp |-> fp, cmd |-> "quit"]
    ELSE [cm |-> cm, fp |-> fp, cmd |-> "tick"]

\* Update(CharacterTickMsg(t)), the frame advance after the typing step
FrameStep(typed, cfg) ==
    ExitStep(typed.cm,
             IF HasPlayer(typed.fp) THEN Tick(typed.fp, FrameRate).player ELSE typed.fp,
             cfg)

\* Update(CharacterTickMsg(t)) from the duration limit on
LimitStep(cm, fp, cfg, t) ==
    IF cfg.Duration > 0 /\ cm.totalDuration >= cfg.Duration
    THEN [cm |-> [cm EXCEPT !.done = TRUE, !.typingDone = TRUE],
          fp |-> fp, cmd |-> "quit"]
    ELSE FrameStep(TypingStep(cm, fp, cfg, t), cfg)

\* Update(CharacterTickMsg(t)): the model, the frame player and the command returned
CharUpdateTick(cm, fp, cfg, t) ==
    IF cm.done THEN [cm |-> cm, fp |-> fp, cmd |-> "quit"]
    ELSE LimitStep(DurationStep(cm, cfg, t), fp, cfg, t)

\* Update(tea.KeyMsg)
CharUpdateKey(cm, key) ==
    IF key = "ctrl+c" THEN [cm |-> cm, cmd |-> "quit"]
    ELSE [cm |-> [cm EXCEPT !.done = TRUE, !.typingDone = TRUE, !.typingIndex = ShowAll],
          cmd |-> "quit"]

\* ---- the typing Model (actions.go) ----
AnimationTypes == {"AnimationNone", "AnimationTyping", "AnimationFadeIn", "AnimationSlide"}

New(content, animType) ==
    [Content |-> content,
     CurrentIndex |-> 0,
     AnimationType |-> animType,
     Done |-> (animType = "AnimationNone"),
     ShowCursor |-> (animType = "AnimationTyping"),
     CursorBlink |-> TRUE]

\* Model.Init
ModelInitCmd(t) == IF t.AnimationType = "AnimationNone" THEN "none" ELSE "tick"

ModelUpdateTick(t) ==
    IF t.Done THEN [tm |-> t, cmd |-> "none"]
    ELSE LET idx == t.CurrentIndex + 1
         IN IF idx >= TotalChars(t.Content)
            THEN [tm |-> [t EXCEPT !.CurrentIndex = idx, !.Done = TRUE,
                                   !.ShowCursor = FALSE],
                  cmd |-> "none"]
            ELSE [tm |-> [t EXCEPT !.CurrentIndex = idx], cmd |-> "tick"]

ModelUpdateKey(t) ==
    IF ~t.Done
    THEN [tm |-> [t EXCEPT !.Done = TRUE, !.CurrentIndex = ShowAll, !.ShowCursor = FALSE],
          cmd |-> "none"]
    ELSE [tm |-> t, cmd |-> "none"]

RECURSIVE ModelViewFrom(_, _, _)
ModelViewFrom(t, lines, charCount) ==
    IF lines = <<>> \/ charCount >= t.CurrentIndex THEN <<>>
    ELSE LET line == Head(lines)
         IN IF charCount + LineLen(line) <= t.CurrentIndex
            THEN <<line>> \o ModelViewFrom(t, Tail(lines), charCount + LineLen(line))
            ELSE LET remaining == t.CurrentIndex - charCount
                     partial == BytePrefix(line, remaining)
                 IN << IF t.ShowCursor /\ t.CursorBlink
                       THEN partial \o <<Cursor>> ELSE partial >>

ModelView(t) ==
    IF t.AnimationType = "AnimationNone" \/ t.Done
    THEN Join(t.Content)
    ELSE Join(ModelViewFrom(t, t.Content, 0))

\* ---- the programs as state ----
IdleConfig == [Duration |-> 0, TypingSpeed |-> 0]

\* no program is running: the state of the loop variables outside the tick loop
LoopIdle ==
    /\ prog = "none"
    /\ config = IdleConfig
    /\ charModel = NewCharacterModel(IdleConfig)
    /\ typingModel = New(<<>>, "AnimationNone")
    /\ now = 0
    /\ lastMsg = "none"
    /\ lastCmd = "none"
    /\ tickPending = FALSE
    /\ quitIssued = FALSE

\* the player held in the variables
Player == [animation |-> animation, currentFrame |-> currentFrame,
           elapsed |-> elapsed, done |-> done]

InitPlayer ==
    /\ animation \in Animations
    /\ tickLoop = NoTick
    /\ currentFrame = NewFramePlayer(animation).currentFrame
    /\ elapsed = NewFramePlayer(animation).elapsed
    /\ done = NewFramePlayer(animation).done
    /\ lastCanvas = NilCanvas
    /\ ticked = FALSE
    /\ total = 0
    /\ resetFrom = "none"
    /\ fresh = [player |-> NewFramePlayer(animation), canvas |-> NilCanvas]
    /\ LoopIdle
    /\ CanvasIdle
    /\ CallIdle

SetPlayer(fp) ==
    /\ animation' = fp.animation
    /\ currentFrame' = fp.currentFrame
    /\ elapsed' = fp.elapsed
    /\ done' = fp.done

DoTick ==
    \E delta \in 0..MaxDelta :
        /\ total + delta <= MaxTotal
        /\ SetPlayer(Tick(Player, delta).player)
        /\ lastCanvas' = Tick(Player, delta).canvas
        /\ ticked' = TRUE
        /\ total' = total + delta
        /\ fresh' = Tick(fresh.player, delta)
        /\ UNCHANGED <<resetFrom, tickLoop>>
        /\ UNCHANGED <<loopVars, canvasVars, callVars>>

DoReset ==
    /\ tickLoop.at = "idle"
    /\ SetPlayer(Reset(Player))
    /\ ticked' = FALSE
    /\ total' = 0
    /\ resetFrom' = IF done THEN "Done" ELSE "Playing"
    /\ fresh' = [player |-> NewFramePlayer(animation), canvas |-> NilCanvas]
    /\ UNCHANGED <<lastCanvas, tickLoop>>
    /\ UNCHANGED <<loopVars, canvasVars, callVars>>

DoSetAnimation ==
    \E anim \in SwitchAnimations :
        /\ tickLoop.at = "idle"
        /\ SetPlayer(SetAnimation(Player, anim))
        /\ ticked' = FALSE
        /\ total' = 0
        /\ resetFrom' = IF done THEN "Done" ELSE "Playing"
        /\ fresh' = [player |-> NewFramePlayer(anim), canvas |-> NilCanvas]
        /\ UNCHANGED <<lastCanvas, tickLoop>>
        /\ UNCHANGED <<loopVars, canvasVars, callVars>>

NextPlayer == DoTick \/ DoReset \/ DoSetAnimation

SpecPlayer == InitPlayer /\ [][NextPlayer]_vars

(***************************************************************************)
(* Tick statement by statement: the frame-advance loop runs one iteration  *)
(* per step, over sequences whose frames may last 0 (the loader reads the  *)
(* duration as any integer and checks none).                               *)
(***************************************************************************)
TickAnimations ==
    {NilAnimation}
    \cup { [isNil |-> FALSE,
            Frames |-> [i \in DOMAIN ds |-> AnimationFrame(ds[i], FrameLooks[i])],
            Loop |-> l] :
             ds \in UNION {[1..n -> 0..MaxDur] : n \in 1..MaxFrames}, l \in BOOLEAN }

InitTick ==
    /\ animation \in TickAnimations
    /\ currentFrame = NewFramePlayer(animation).currentFrame
    /\ elapsed = NewFramePlayer(animation).elapsed
    /\ done = NewFramePlayer(animation).done
    /\ tickLoop = NoTick
    /\ lastCanvas = NilCanvas
    /\ ticked = FALSE
    /\ total = 0
    /\ resetFrom = "none"
    /\ fresh = [player |-> NewFramePlayer(animation), canvas |-> NilCanvas]
    /\ LoopIdle
    /\ CanvasIdle
    /\ CallIdle

\* Tick(delta) up to the loop: the early return, or elapsed += delta and the
\* duration of the current frame
TickBegin ==
    /\ tickLoop.at = "idle"
    /\ \E delta \in 0..MaxDelta :
          /\ total + delta <= MaxTotal
          /\ total' = total + delta
          /\ IF done \/ animation.isNil \/ Len(animation.Frames) = 0
             THEN /\ tickLoop' = [NoTick EXCEPT !.delta = delta,
                                                !.before = <<currentFrame, elapsed, done>>]
                  /\ lastCanvas' = renderFrame(animation, 0)
                  /\ UNCHANGED elapsed
             ELSE /\ tickLoop' = [at |-> "loop", delta |-> delta,
                                  before |-> <<currentFrame, elapsed, done>>,
                                  currentFrameDuration |->
                                      FrameDuration(animation, currentFrame),
                                  odd |-> FALSE]
                  /\ elapsed' = elapsed + delta
                  /\ UNCHANGED lastCanvas
    /\ ticked' = TRUE
    /\ UNCHANGED <<animation, currentFrame, done, resetFrom, fresh>>
    /\ UNCHANGED <<loopVars, canvasVars, callVars>>

\* the loop for fp.elapsed >= currentFrameDuration { ... }: one evaluation of
\* its condition and, where it holds, one run of its body; the loop is left
\* when the condition fails or at the break
TickIterate ==
    /\ tickLoop.at = "loop"
    /\ IF elapsed >= tickLoop.currentFrameDuration
       THEN /\ elapsed' = elapsed - tickLoop.currentFrameDuration
            /\ IF currentFrame + 1 >= Len(animation.Frames)
               THEN IF animation.Loop
                    THEN /\ currentFrame' = 0
                         /\ tickLoop' = [tickLoop EXCEPT
                               !.currentFrameDuration = FrameDuration(animation, 0),
                               !.odd = ~tickLoop.odd]
                         /\ UNCHANGED done
                    ELSE /\ currentFrame' = Len(animation.Frames) - 1
                         /\ done' = TRUE
                         /\ tickLoop' = [tickLoop EXCEPT !.at = "return"]
               ELSE /\ currentFrame' = currentFrame + 1
                    /\ tickLoop' = [tickLoop EXCEPT
                          !.currentFrameDuration =
                              FrameDuration(animation, currentFrame + 1),
                          !.odd = ~tickLoop.odd]
                    /\ UNCHANGED done
       ELSE /\ tickLoop' = [tickLoop EXCEPT !.at = "return"]
            /\ UNCHANGED <<currentFrame, elapsed, done>>
    /\ UNCHANGED <<animation, lastCanvas, ticked, total, resetFrom, fresh>>
    /\ UNCHANGED <<loopVars, canvasVars, callVars>>

\* after the loop: return fp.renderFrame(fp.currentFrame)
TickReturn ==
    /\ tickLoop.at = "return"
    /\ tickLoop' = [tickLoop EXCEPT !.at = "idle"]
    /\ lastCanvas' = renderFrame(animation, currentFrame)
    /\ UNCHANGED <<animation, currentFrame, elapsed, done, ticked, total, resetFrom, fresh>>
    /\ UNCHANGED <<loopVars, canvasVars, callVars>>

NextTick == TickBegin \/ TickIterate \/ TickReturn \/ DoReset \/ DoSetAnimation

SpecTick == InitTick /\ [][NextTick]_vars

\* the goroutine that called Tick keeps running
SpecTickFair == SpecTick /\ WF_vars(TickIterate)

(***************************************************************************)
(* The tick loop as a state machine: Bubble Tea delivers one message at a  *)
(* time to Update, renders View after it, and stops at a Quit command.     *)
(***************************************************************************)
Line(chars) == [i \in DOMAIN chars |-> [Rune |-> chars[i], Style |-> NoStyle]]

\* the contents Animate is given: one line, and three lines with an empty one
TypingContents ==
    { << Line(<<"h", "i">>) >>,
      << Line(<<"h", "i">>), <<>>, Line(<<"W">>) >> }

\* the observers of the player are not used by the loop
PlayerObserversIdle ==
    /\ tickLoop = NoTick
    /\ lastCanvas = NilCanvas
    /\ ticked = FALSE
    /\ total = 0
    /\ resetFrom = "none"
    /\ fresh = [player |-> NewFramePlayer(NilAnimation), canvas |-> NilCanvas]

\* AnimateCharacter: NewCharacterModel, then Init issues the first tick
InitCharacter ==
    /\ prog = "character"
    /\ config \in [Duration : 0..MaxDuration, TypingSpeed : 0..MaxTypingSpeed]
    /\ animation \in SwitchAnimations
    /\ currentFrame = NewFramePlayer(animation).currentFrame
    /\ elapsed = NewFramePlayer(animation).elapsed
    /\ done = NewFramePlayer(animation).done
    /\ charModel = NewCharacterModel(config)
    /\ typingModel = New(<<>>, "AnimationNone")
    /\ lastCmd = "tick"
    /\ tickPending = TRUE

\* Animate: New, then Init issues the first tick
InitTyping ==
    /\ prog = "typing"
    /\ config = IdleConfig
    /\ animation = NilAnimation
    /\ currentFrame = 0
    /\ elapsed = 0
    /\ done = FALSE
    /\ charModel = NewCharacterModel(IdleConfig)
    /\ typingModel \in {New(c, t) : c \in TypingContents,
                                   t \in AnimationTypes \ {"AnimationNone"}}
    /\ lastCmd = ModelInitCmd(typingModel)
    /\ tickPending = (ModelInitCmd(typingModel) = "tick")

InitLoop ==
    /\ InitCharacter \/ InitTyping
    /\ now = 0
    /\ lastMsg = "none"
    /\ quitIssued = FALSE
    /\ PlayerObserversIdle
    /\ CanvasIdle
    /\ CallIdle

PlayerObserversUnchanged ==
UNCHANGED <<lastCanvas, ticked, total, resetFrom, fresh, tickLoop, canvasVars, callVars>>

\* a CharacterTickMsg reaches CharacterModel.Update; View follows
CharTick ==
    /\ prog = "character"
    /\ tickPending /\ ~quitIssued
    /\ now < MaxClock
    /\ \E r \in {CharUpdateTick(charModel, Player, config, now + FrameRate)} :
          /\ charModel' = r.cm
          /\ SetPlayer(AfterRender(r.fp))
          /\ lastCmd' = r.cmd
          /\ tickPending' = (r.cmd = "tick")
          /\ quitIssued' = (r.cmd = "quit")
    /\ now' = now + FrameRate
    /\ lastMsg' = "tick"
    /\ UNCHANGED <<prog, config, typingModel>>
    /\ PlayerObserversUnchanged

\* a tea.KeyMsg reaches CharacterModel.Update; View follows
CharKey ==
    /\ prog = "character"
    /\ ~quitIssued
    /\ \E key \in {"q", "ctrl+c"} :
          \E r \in {CharUpdateKey(charModel, key)} :
             /\ charModel' = r.cm
             /\ lastCmd' = r.cmd
             /\ quitIssued' = (r.cmd = "quit")
             /\ lastMsg' = key
    /\ SetPlayer(AfterRender(Player))
    /\ UNCHANGED <<prog, config, typingModel, now, tickPending>>
    /\ PlayerObserversUnchanged

\* a tickMsg reaches Model.Update
TypingTick ==
    /\ prog = "typing"
    /\ tickPending /\ ~quitIssued
    /\ \E r \in {ModelUpdateTick(typingModel)} :
          /\ typingModel' = r.tm
          /\ lastCmd' = r.cmd
          /\ tickPending' = (r.cmd = "tick")
    /\ lastMsg' = "tick"
    /\ UNCHANGED <<prog, config, charModel, now, quitIssued>>
    /\ UNCHANGED <<playerVars, canvasVars, callVars>>

\* a tea.KeyMsg reaches Model.Update
TypingKey ==
    /\ prog = "typing"
    /\ ~quitIssued
    /\ \E key \in {"q", "ctrl+c"} :
          \E r \in {ModelUpdateKey(typingModel)} :
             /\ typingModel' = r.tm
             /\ lastCmd' = r.cmd
             /\ lastMsg' = key
    /\ UNCHANGED <<prog, config, charModel, now, tickPending, quitIssued>>
    /\ UNCHANGED <<playerVars, canvasVars, callVars>>

NextLoop == CharTick \/ CharKey \/ TypingTick \/ TypingKey

SpecLoop == InitLoop /\ [][NextLoop]_vars

\* what the terminal shows in the current state
View ==
    IF prog = "character" THEN CharView(charModel, Player) ELSE ModelView(typingModel)

\* the complete output of the current state
FullOutput ==
    IF prog = "character" THEN Join(CharLines(Player)) ELSE Join(typingModel.Content)

RevealCount ==
    IF prog = "character" THEN charModel.typingIndex ELSE typingModel.CurrentIndex

RevealComplete ==
    IF prog = "character" THEN charModel.typingDone ELSE typingModel.Done

OutputChars ==
    IF prog = "character" THEN getTotalChars(Player) ELSE TotalChars(typingModel.Content)

(***************************************************************************)
(* The canvas operations as a state machine: a caller holds two canvases,  *)
(* applies one operation, and may then write into one of the canvases.     *)
(***************************************************************************)
\* the caller's pointer to a canvas value: nil, or new storage holding it
Hold(h, v) == IF v.isNil THEN [heap |-> h, ref |-> NilRef] ELSE AllocCanvas(h, v)

\* no frame player is in use
PlayerIdle ==
    /\ animation = NilAnimation
    /\ currentFrame = 0
    /\ elapsed = 0
    /\ done = FALSE
    /\ PlayerObserversIdle

InitCanvas ==
    /\ snap \in {[a |-> va, b |-> vb, res |-> NilCanvas] :
                    va \in Operands("a"), vb \in Operands("b")}
    /\ canvasA = Hold(<<>>, snap.a).ref
    /\ canvasB = Hold(Hold(<<>>, snap.a).heap, snap.b).ref
    /\ heap = Hold(Hold(<<>>, snap.a).heap, snap.b).heap
    /\ returned = NilRef
    /\ op = NoOp
    /\ probe = "none"
    /\ got = TransparentCell
    /\ PlayerIdle
    /\ LoopIdle
    /\ CallIdle

\* the offsets of Overlay, the gaps of Merge and Stack, the sizes asked of
\* NewCanvas and Resize
Offsets == (0 - MaxDim)..MaxDim

Gaps == (0 - (2 * MaxDim + 1))..1

Sizes == (0 - 1)..(MaxDim + 1)

\* the operation, called with args, returned r: its storage and pointer are
\* kept, its contents noted
ReturnsFor(name, p, q, args, r) ==
    /\ heap' = r.heap
    /\ returned' = r.ref
    /\ snap' = [snap EXCEPT !.res = Deref(r.heap, r.ref)]
    /\ op' = [name |-> name, p |-> p, q |-> q, args |-> args]
    /\ UNCHANGED <<canvasA, canvasB, probe, got>>
    /\ UNCHANGED <<playerVars, loopVars, callVars>>

\* the operation returned r: its storage and pointer are kept, its contents noted
Returns(name, p, q, r) ==
    /\ heap' = r.heap
    /\ returned' = r.ref
    /\ snap' = [snap EXCEPT !.res = Deref(r.heap, r.ref)]
    /\ op' = [name |-> name, p |-> p, q |-> q, args |-> <<>>]
    /\ UNCHANGED <<canvasA, canvasB, probe, got>>
    /\ UNCHANGED <<playerVars, loopVars, callVars>>

\* a.Overlay(b, x, y)
DoOverlay ==
    /\ op.name = "none"
    /\ ~canvasA.isNil
    /\ \E x \in Offsets, y \in Offsets :
          /\ heap' = OverlayRef(heap, canvasA, canvasB, x, y)
          /\ op' = [name |-> "Overlay", p |-> x, q |-> y, args |-> <<>>]
    /\ UNCHANGED <<canvasA, canvasB, returned, snap, probe, got>>
    /\ UNCHANGED <<playerVars, loopVars, callVars>>

\* Merge(a, b, gap)
DoMerge ==
    /\ op.name = "none"
    /\ \E gap \in Gaps :
          Returns("Merge", gap, 0, MergeRef(heap, canvasA, canvasB, gap))

\* Stack(a, b, gap)
DoStack ==
    /\ op.name = "none"
    /\ \E gap \in Gaps :
          Returns("Stack", gap, 0, StackRef(heap, canvasA, canvasB, gap))

\* a.Resize(w, h)
DoResize ==
    /\ op.name = "none"
    /\ ~canvasA.isNil
    /\ \E w \in Sizes, h \in Sizes :
          Returns("Resize", w, h, ResizeRef(heap, canvasA, w, h))

\* a.Clone()
DoClone ==
    /\ op.name = "none"
    /\ ~canvasA.isNil
    /\ Returns("Clone", 0, 0, CloneRef(heap, canvasA))

\* NewCanvas(w, h)
DoNewCanvas ==
    /\ op.name = "none"
    /\ canvasA.isNil /\ canvasB.isNil
    /\ \E w \in Sizes, h \in Sizes :
          Returns("NewCanvas", w, h, NewCanvasRef(heap, w, h))

\* FromLines(lines, style)
DoFromLines ==
    /\ op.name = "none"
    /\ canvasA.isNil /\ canvasB.isNil
    /\ \E lines \in LineLists :
          Returns("FromLines", 0, 0, AllocCanvas(heap, FromLines(lines, NoStyle)))

\* ch.ToCanvasStyled(eyes, mouth, styles)
DoToCanvasStyled ==
    /\ op.name = "none"
    /\ canvasA.isNil /\ canvasB.isNil
    /\ \E ch \in Characters, eyes \in {DefaultEyes, <<>>, <<"W", "W">>} :
          Returns("ToCanvasStyled", 0, 0,
                  AllocCanvas(heap, ToCanvasStyled(ch, eyes, DefaultMouth)))

\* Compose(text, ch, eyes, mouth, config)
DoCompose ==
    /\ op.name = "none"
    /\ canvasA.isNil /\ canvasB.isNil
    /\ \E text \in Texts, ch \in Characters, cfg \in CompositorConfigs :
          ReturnsFor("Compose", 0, 0, <<text, ch, cfg>>,
                     AllocCanvas(heap, Compose(text, ch, DefaultEyes, DefaultMouth, cfg)))

\* ComposeMultiPanel(panels, config)
DoComposeMultiPanel ==
    /\ op.name = "none"
    /\ canvasA.isNil /\ canvasB.isNil
    /\ \E panels \in PanelLists, cfg \in CompositorConfigs :
          ReturnsFor("ComposeMultiPanel", Len(panels), 0, <<panels, cfg>>,
                     AllocCanvas(heap, ComposeMultiPanel(panels, cfg)))

\* the coordinates Set and Get are called with: inside and outside the canvas
Coords == (0 - 1)..MaxDim

\* a.Set(x, y, '#', style), the caller holding the one canvas a
DoSet ==
    /\ op.name = "none"
    /\ ~canvasA.isNil /\ canvasB.isNil
    /\ \E x \in Coords, y \in Coords, style \in {NoStyle, "bold"} :
          /\ heap' = SetRef(heap, canvasA, x, y, "#", style)
          /\ op' = [name |-> "Set", p |-> x, q |-> y, args |-> <<"#", style>>]
    /\ UNCHANGED <<canvasA, canvasB, returned, snap, probe, got>>
    /\ UNCHANGED <<playerVars, loopVars, callVars>>

\* a.Get(x, y), on a canvas as constructed or after a Set
DoGet ==
    /\ op.name \in {"none", "Set"}
    /\ ~canvasA.isNil /\ canvasB.isNil
    /\ \E x \in Coords, y \in Coords :
          /\ got' = Get(Deref(heap, canvasA), x, y)
          /\ op' = [name |-> "Get", p |-> x, q |-> y, args |-> <<op>>]
    /\ UNCHANGED <<heap, canvasA, canvasB, returned, snap, probe>>
    /\ UNCHANGED <<playerVars, loopVars, callVars>>

\* the pointer a name stands for
Target(name) ==
    CASE name = "a" -> canvasA
      [] name = "b" -> canvasB
      [] OTHER -> returned

\* after an operation that returned a canvas built from a and b: a later write,
\* Set(0, 0, '#'), into one of the three
DoProbe ==
    /\ op.name \in {"Merge", "Stack", "Resize", "Clone"}
    /\ probe = "none"
    /\ \E name \in {"a", "b", "returned"} :
          /\ ~Target(name).isNil
          /\ heap' = SetRef(heap, Target(name), 0, 0, "#", NoStyle)
          /\ probe' = name
    /\ UNCHANGED <<canvasA, canvasB, returned, op, snap, got>>
    /\ UNCHANGED <<playerVars, loopVars, callVars>>

NextCanvas ==
    \/ DoOverlay \/ DoMerge \/ DoStack \/ DoResize \/ DoClone
    \/ DoNewCanvas \/ DoFromLines \/ DoToCanvasStyled
    \/ DoCompose \/ DoComposeMultiPanel
    \/ DoProbe
    \/ DoSet \/ DoGet

SpecCanvas == InitCanvas /\ [][NextCanvas]_vars

(***************************************************************************)
(* Templates and characters by name (bubble/template.go, canvas character  *)
(* loading, character/renderer.go).  A name is one string; a file is       *)
(* absent, malformed JSON, or the descriptor it holds.                     *)
(***************************************************************************)
\* strings.ToLower(strings.TrimSpace(name)) on the names of the model
ToLower(name) == IF name = "CAT" THEN "cat" ELSE IF name = "SAY" THEN "say" ELSE name

NoCharacter ==
    [Name |-> "", Art |-> <<>>, Eyes |-> NoSlot, Mouth |-> NoSlot,
     Anchor |-> [X |-> 0, Y |-> 0]]

\* the built-in characters, their art cut down to two rows
builtinDefault ==
    [Name |-> "default",
     Art |-> << <<"^", "_", "_", "^">>, <<"(", "@", "@", ")">> >>,
     Eyes |-> [isNil |-> FALSE, Line |-> 1, Col |-> 1, Width |-> 2,
               Placeholder |-> <<"@", "@">>],
     Mouth |-> NoSlot,
     Anchor |-> [X |-> 1, Y |-> 0]]

builtinCat ==
    [Name |-> "cat",
     Art |-> << <<"/", "\\">>, <<"@", "@">> >>,
     Eyes |-> [isNil |-> FALSE, Line |-> 1, Col |-> 0, Width |-> 2,
               Placeholder |-> <<"@", "@">>],
     Mouth |-> NoSlot,
     Anchor |-> [X |-> 0, Y |-> 0]]

BuiltinNames == {"cat", "default"}

BuiltinCharacters(name) == IF name = "cat" THEN builtinCat ELSE builtinDefault

GetBuiltinCharacter(name) ==
    IF ToLower(name) \in BuiltinNames
    THEN [char |-> BuiltinCharacters(ToLower(name)), ok |-> TRUE]
    ELSE [char |-> NoCharacter, ok |-> FALSE]

\* the character files there are, on disk and embedded: "owl" a descriptor
\* without a name, "empty" a descriptor with zero art rows, "broken" malformed
CharacterFileNames == {"owl", "empty", "broken"}

ReadCharacterFile(name) ==
    CASE name = "owl" -> [parses |-> TRUE, char |-> [builtinCat EXCEPT !.Name = ""]]
      [] name = "empty" -> [parses |-> TRUE,
                            char |-> [builtinCat EXCEPT !.Name = "empty", !.Art = <<>>]]
      [] OTHER -> [parses |-> FALSE, char |-> NoCharacter]

\* canvas.LoadCharacter(filename), filename the file of that name
LoadCharacter(name) ==
    IF name \notin CharacterFileNames
    THEN [char |-> NoCharacter, err |-> "read"]
    ELSE IF ~ReadCharacterFile(name).parses
    THEN [char |-> NoCharacter, err |-> "parse"]
    ELSE IF Len(ReadCharacterFile(name).char.Art) = 0
    THEN [char |-> NoCharacter, err |-> "ErrEmptyArt"]
    ELSE [char |-> IF ReadCharacterFile(name).char.Name = ""
                   THEN [ReadCharacterFile(name).char EXCEPT !.Name = name]
                   ELSE ReadCharacterFile(name).char,
          err |-> "nil"]

\* the filesystems SetEmbeddedFS is given; "none" is the characters directory
\* on disk, read while no filesystem is set
Filesystems == {"fs1", "fs2"}

\* the names of the JSON files in the characters directory of a filesystem
EmbeddedNames(fs) ==
    CASE fs = "none" -> CharacterFileNames
      [] fs = "fs1" -> {"cat", "owl"}
      [] OTHER -> {"bat", "owl"}

\* the file of that name in the filesystem; a descriptor of an embedded
\* filesystem has one art row that tells which filesystem it came from
ReadEmbeddedFile(fs, name) ==
    IF fs = "none"
    THEN ReadCharacterFile(name)
    ELSE [parses |-> TRUE, char |-> [builtinCat EXCEPT !.Name = "", !.Art = << <<fs>> >>]]

\* loadEmbeddedCharacter(name) with the cache and the filesystem as they are:
\* the character (or the error) and the cache afterwards
loadEmbeddedCharacter(name, cache, fs) ==
    IF \E e \in cache : e[1] = name
    THEN [char |-> (CHOOSE e \in cache : e[1] = name)[2], err |-> "nil", cache |-> cache]
    ELSE IF name \notin EmbeddedNames(fs)
    THEN [char |-> NoCharacter, err |-> "read", cache |-> cache]
    ELSE IF ~ReadEmbeddedFile(fs, name).parses
    THEN [char |-> NoCharacter, err |-> "parse", cache |-> cache]
    ELSE LET char == IF ReadEmbeddedFile(fs, name).char.Name = ""
                     THEN [ReadEmbeddedFile(fs, name).char EXCEPT !.Name = name]
                     ELSE ReadEmbeddedFile(fs, name).char
         IN [char |-> char, err |-> "nil", cache |-> cache \cup {<<name, char>>}]

GetEmbeddedCharacter(name, cache, fs) == loadEmbeddedCharacter(ToLower(name), cache, fs)

\* the names in the order sort.Strings gives them
NameOrder == <<"bat", "broken", "cat", "empty", "owl">>

\* the names of a set, sorted: the order ReadDir lists the files in
SortedNames(names) ==
    LET F[i \in 0..Len(NameOrder)] ==
            IF i = 0 THEN <<>>
            ELSE IF NameOrder[i] \in names THEN Append(F[i - 1], NameOrder[i]) ELSE F[i - 1]
    IN F[Len(NameOrder)]

\* sort.Strings(list)
SortStrings(list) ==
    LET F[i \in 0..Len(NameOrder)] ==
            IF i = 0 THEN <<>>
            ELSE F[i - 1] \o SelectSeq(list, LAMBDA n : n = NameOrder[i])
    IN F[Len(NameOrder)]

\* listEmbeddedCharacters() with the list cache and its Once as they are: the
\* list returned, which is the list cache afterwards
listEmbeddedCharacters(fs, list, once) ==
    IF once = "done"
    THEN list
    ELSE SortStrings(list \o SortedNames(EmbeddedNames(fs)))

\* character.LoadCharacter(name): a JSON file of that name, else the built-in
LoadCharacterByName(name) ==
    IF ToLower(name) = ""
    THEN [char |-> NoCharacter, err |-> "validation"]
    ELSE IF LoadCharacter(ToLower(name)).err = "nil"
    THEN LoadCharacter(ToLower(name))
    ELSE IF GetBuiltinCharacter(ToLower(name)).ok
    THEN [char |-> GetBuiltinCharacter(ToLower(name)).char, err |-> "nil"]
    ELSE [char |-> NoCharacter, err |-> "CharacterLoadError"]

\* the configuration Renderer.RenderWithTailDirection and RenderMultiPanel build
RendererConfig(width) ==
    [BubbleWidth |-> width, ConnectorLen |-> 2,
     TailDirection |-> "TailDown", Layout |-> "LayoutVertical"]

\* NewRenderer(theme, mood, width).Render(text, char, style): the lines
RendererRender(text, char, width) ==
    Render(Compose(text, char, DefaultEyes, DefaultMouth,
                   RendererConfig(IF width <= 0 THEN DefaultWidth ELSE width)))

RenderByName(text, name, width) ==
    IF LoadCharacterByName(name).err # "nil"
    THEN [out |-> <<>>, isNil |-> TRUE, err |-> TRUE]
    ELSE [out |-> RendererRender(text, LoadCharacterByName(name).char, width),
          isNil |-> FALSE, err |-> FALSE]

\* the panel RenderMultiPanel hands to the compositor for one named panel
PanelFor(panel) ==
    [Text |-> panel.Text,
     Character |-> IF panel.CharacterName # "" /\ LoadCharacterByName(panel.CharacterName).err = "nil"
                   THEN LoadCharacterByName(panel.CharacterName).char
                   ELSE GetBuiltinCharacter("default").char,
     Eyes |-> DefaultEyes, Mouth |-> DefaultMouth]

RenderMultiPanel(panels, width) ==
    IF Len(panels) = 0
    THEN [out |-> <<>>, isNil |-> FALSE, err |-> FALSE]
    ELSE [out |-> Render(ComposeMultiPanel([i \in 1..Len(panels) |-> PanelFor(panels[i])],
                                           RendererConfig(IF width <= 0 THEN DefaultWidth
                                                          ELSE width))),
          isNil |-> FALSE, err |-> FALSE]

\* the custom template files in the user's configuration directory
TemplateFileNames == {"fancy", "bad"}

loadCustomTemplate(name) ==
    IF name = "fancy"
    THEN [tmpl |-> [SayTemplate EXCEPT !.TopBorder = "="], err |-> FALSE]
    ELSE [tmpl |-> SayTemplate, err |-> TRUE]

\* bubble.GetTemplate(name) with the cache as it is: the template and the cache
\* afterwards
GetTemplate(name, cache) ==
    CASE ToLower(name) = "say" -> [tmpl |-> SayTemplate, isNil |-> FALSE, cache |-> cache]
      [] ToLower(name) = "song" -> [tmpl |-> SongTemplate, isNil |-> FALSE, cache |-> cache]
      [] \E e \in cache : e[1] = ToLower(name) ->
            [tmpl |-> (CHOOSE e \in cache : e[1] = ToLower(name))[2], isNil |-> FALSE,
             cache |-> cache]
      [] ToLower(name) \in TemplateFileNames /\ ~loadCustomTemplate(ToLower(name)).err ->
            [tmpl |-> loadCustomTemplate(ToLower(name)).tmpl, isNil |-> FALSE,
             cache |-> cache \cup {<<ToLower(name), loadCustomTemplate(ToLower(name)).tmpl>>}]
      [] OTHER -> [tmpl |-> SayTemplate, isNil |-> FALSE, cache |-> cache]

(***************************************************************************)
(* The functions that keep no state, each called once on its inputs        *)
(***************************************************************************)
InitCalls ==
    /\ CallIdle
    /\ PlayerIdle
    /\ LoopIdle
    /\ CanvasIdle

\* f(args) returned r
Called(name, args, r) ==
    /\ call' = [name |-> name, args |-> args]
    /\ callResult' = r
    /\ UNCHANGED <<characterCache, templateCache, embedVars>>
    /\ UNCHANGED <<playerVars, loopVars, canvasVars>>

\* the symbols of a text: a letter, a double-width symbol, a space, a carriage
\* return
Alphabet == {"a", "W", " ", "\r"}

WrapTexts == UNION {[1..n -> Alphabet] : n \in 0..MaxText}

\* wrapText(text, width)
DoWrapText ==
    /\ call.name = "none"
    /\ \E text \in WrapTexts, width \in 0..MaxText :
          Called("wrapText", <<text, width>>, wrapText(text, width))

\* the art rows, slots and expression values replaceSlot is called with
SlotRows ==
    { <<"(", "@", "@", ")">>, <<"@", "@", "x", "@", "@">>, <<"W", "@", "@">>,
      <<"a", "b">>, <<>> }

Slots ==
    [isNil : {FALSE}, Line : {0}, Col : {0, 1}, Width : (0 - 1)..MaxSlotWidth,
     Placeholder : { <<"@", "@">>, <<"@">>, <<>> }]

SlotValues == UNION {[1..n -> {"o", "W"}] : n \in 0..2}

\* replaceSlot(line, slot, value)
DoReplaceSlot ==
    /\ call.name = "none"
    /\ \E line \in SlotRows, slot \in Slots, value \in SlotValues :
          Called("replaceSlot", <<line, slot, value>>, replaceSlot(line, slot, value))

\* characters whose slots point at rows inside and outside the art
SlotLines == (0 - 1)..MaxSlotLine

SlotCharacters ==
    {[Art |-> art,
      Eyes |-> [isNil |-> FALSE, Line |-> el, Col |-> 1, Width |-> 2,
                Placeholder |-> <<"@", "@">>],
      Mouth |-> mouth,
      Anchor |-> [X |-> 0, Y |-> 0]] :
        art \in { <<>>, << <<"(", "@", "@", ")">> >>,
                  << <<"(", "@", "@", ")">>, <<"$", "W">> >> },
        el \in SlotLines,
        mouth \in {NoSlot} \cup
                  {[isNil |-> FALSE, Line |-> ml, Col |-> 0, Width |-> 1,
                    Placeholder |-> <<"$">>] : ml \in SlotLines}}

\* ch.ToCanvasStyled(eyes, mouth, styles)
DoCallToCanvasStyled ==
    /\ call.name = "none"
    /\ \E ch \in SlotCharacters, eyes \in {DefaultEyes, <<"W", "W">>, <<"o", "o", "o">>} :
          Called("ToCanvasStyled", <<ch, eyes, <<"w">> >>,
                 CallToCanvasStyled(ch, eyes, <<"w">>))

\* the texts and widths bubbles are rendered with
BubbleTexts ==
    { <<>>, <<" ">>, <<" ", "\t">>, <<"h", "i">>, <<"h", "i", " ", "y", "o">>, <<"W">> }

BubbleWidths == ((0 - 1)..MaxBubbleWidth) \cup {DefaultWidth}

\* the text rows of a canvas
CanvasRows(c) == [i \in 1..c.Height |-> [j \in 1..c.Width |-> c.Cells[i - 1][j - 1].Rune]]

\* canvas.RenderBubble(text, width, style, color)
DoRenderBubble ==
    /\ call.name = "none"
    /\ \E text \in BubbleTexts, width \in BubbleWidths, style \in BubbleStyles :
          Called("RenderBubble", <<text, width, GetTemplateForBubbleStyle(style), style>>,
                 CanvasRows(RenderBubbleWithStyle(text, width, style, NoStyle)))

\* bubble.RenderWithTemplate(text, width, tmpl)
DoRenderWithTemplate ==
    /\ call.name = "none"
    /\ \E text \in BubbleTexts, width \in BubbleWidths, tmpl \in {SayTemplate, SongTemplate} :
          Called("RenderWithTemplate", <<text, width, tmpl>>,
                 RenderWithTemplate(text, width, tmpl))

\* bubble.New(text, width, StyleSay).Render()
DoBubbleRender ==
    /\ call.name = "none"
    /\ \E text \in BubbleTexts, width \in BubbleWidths :
          Called("Bubble.Render", <<text, width, SayTemplate>>,
                 BubbleRender(BubbleNew(text, width)))

\* the names templates and characters are asked for by
TemplateNames == {"say", "SAY", "song", "fancy", "bad", "nosuch", ""}

CharacterNames == {"cat", "CAT", "default", "owl", "empty", "broken", "nosuch", ""}

\* bubble.GetTemplate(name); a later call may find the template in the cache
DoGetTemplate ==
    /\ call.name \in {"none", "GetTemplate"}
    /\ \E name \in TemplateNames :
          /\ call' = [name |-> "GetTemplate", args |-> <<name>>]
          /\ callResult' = [tmpl |-> GetTemplate(name, templateCache).tmpl,
                            isNil |-> GetTemplate(name, templateCache).isNil]
          /\ templateCache' = GetTemplate(name, templateCache).cache
    /\ UNCHANGED <<characterCache, embedVars>>
    /\ UNCHANGED <<playerVars, loopVars, canvasVars>>

\* canvas.LoadCharacter(file of that name)
DoLoadCharacter ==
    /\ call.name = "none"
    /\ \E name \in CharacterNames :
          Called("LoadCharacter", <<name>>, LoadCharacter(name))

\* canvas.GetEmbeddedCharacter(name); a later call may find the character in
\* the cache
DoGetEmbeddedCharacter ==
    /\ call.name \in {"none", "GetEmbeddedCharacter", "ListEmbeddedCharacters", "SetEmbeddedFS"}
    /\ \E name \in CharacterNames :
          /\ call' = [name |-> "GetEmbeddedCharacter", args |-> <<ToLower(name)>>]
          /\ callResult' = [char |-> GetEmbeddedCharacter(name, characterCache, embeddedFS).char,
                            err |-> GetEmbeddedCharacter(name, characterCache, embeddedFS).err]
          /\ characterCache' = GetEmbeddedCharacter(name, characterCache, embeddedFS).cache
    /\ UNCHANGED <<templateCache, embedVars>>
    /\ UNCHANGED <<playerVars, loopVars, canvasVars>>

\* canvas.ListEmbeddedCharacters()
DoListEmbeddedCharacters ==
    /\ call.name \in {"none", "GetEmbeddedCharacter", "ListEmbeddedCharacters", "SetEmbeddedFS"}
    /\ call' = [name |-> "ListEmbeddedCharacters", args |-> <<>>]
    /\ callResult' = listEmbeddedCharacters(embeddedFS, characterListCache, characterListOnce)
    /\ characterListCache' = callResult'
    /\ characterListOnce' = "done"
    /\ UNCHANGED <<characterCache, templateCache, embeddedFS, characterCacheMu, goroutines, fatal>>
    /\ UNCHANGED <<playerVars, loopVars, canvasVars>>

\* canvas.SetEmbeddedFS(fs): SetEmbeddedFSWithPrefix(fs, "characters")
DoSetEmbeddedFS ==
    /\ call.name \in {"none", "GetEmbeddedCharacter", "ListEmbeddedCharacters", "SetEmbeddedFS"}
    /\ Len(characterListCache) <= MaxListed
    /\ \E fs \in Filesystems :
          /\ call' = [name |-> "SetEmbeddedFS", args |-> <<fs>>]
          /\ embeddedFS' = fs
    /\ callResult' = <<>>
    /\ characterCache' = {}
    /\ characterListOnce' = "fresh"
    /\ UNCHANGED <<templateCache, characterListCache, characterCacheMu, goroutines, fatal>>
    /\ UNCHANGED <<playerVars, loopVars, canvasVars>>

\* renderer.RenderByName(text, name, style)
DoRenderByName ==
    /\ call.name = "none"
    /\ \E text \in {<<>>, <<"h", "i">>}, name \in CharacterNames, width \in {0, 5} :
          Called("RenderByName", <<name, text, width>>, RenderByName(text, name, width))

\* renderer.RenderMultiPanel(panels)
DoRenderMultiPanel ==
    /\ call.name = "none"
    /\ \E n1 \in CharacterNames, n2 \in {"cat", "nosuch"}, k \in 1..2 :
          Called("RenderMultiPanel", <<n1, n2, k>>,
                 RenderMultiPanel(SubSeq(<<[Text |-> <<"h", "i">>, CharacterName |-> n1],
                                           [Text |-> <<>>, CharacterName |-> n2]>>, 1, k),
                                  5))

NextCalls ==
    \/ DoWrapText
    \/ DoGetTemplate \/ DoLoadCharacter \/ DoGetEmbeddedCharacter
    \/ DoListEmbeddedCharacters \/ DoSetEmbeddedFS
    \/ DoRenderByName \/ DoRenderMultiPanel
    \/ DoRenderBubble \/ DoRenderWithTemplate \/ DoBubbleRender
    \/ DoCallToCanvasStyled
    \/ DoReplaceSlot

SpecCalls == InitCalls /\ [][NextCalls]_vars

(***************************************************************************)
(* Renders running at the same time: each goroutine resolves templates and *)
(* characters by name and lists the characters.  A read or a write of a    *)
(* package variable begins in one step and ends in a later one, the other  *)
(* goroutine running in between.                                           *)
(***************************************************************************)
\* some other goroutine is inside an access of the variable
OtherInside(g, on) ==
    \E h \in Goroutines \ {g} : goroutines[h].on = on /\ goroutines[h].at \in {"read", "write"}

\* bubble.GetTemplate(name), name not a built-in template: no lock is taken
GoGetTemplate(g) ==
    /\ ~fatal
    /\ \/ /\ goroutines[g].at = "idle"
          /\ \E name \in {"fancy", "nosuch"} :
                goroutines' = [goroutines EXCEPT
                                 ![g] = [at |-> "read", on |-> "templateCache", name |-> name]]
          /\ UNCHANGED <<templateCache, fatal>>
       \/ /\ goroutines[g].at = "read" /\ goroutines[g].on = "templateCache"
          /\ goroutines' = [goroutines EXCEPT
                ![g] = IF (\E e \in templateCache : e[1] = goroutines[g].name)
                          \/ loadCustomTemplate(goroutines[g].name).err
                       THEN IdleGoroutine
                       ELSE [goroutines[g] EXCEPT !.at = "write"]]
          /\ UNCHANGED <<templateCache, fatal>>
       \/ /\ goroutines[g].at = "write" /\ goroutines[g].on = "templateCache"
          /\ goroutines' = [goroutines EXCEPT ![g] = IdleGoroutine]
          \* a map written while another goroutine reads or writes it: the
          \* runtime may abort ("concurrent map read and map write")
          /\ \/ /\ templateCache' = {e \in templateCache : e[1] # goroutines[g].name}
                                       \cup {<<goroutines[g].name,
                                               loadCustomTemplate(goroutines[g].name).tmpl>>}
                /\ UNCHANGED fatal
             \/ /\ OtherInside(g, "templateCache")
                /\ fatal' = TRUE
                /\ UNCHANGED templateCache
    /\ UNCHANGED <<call, callResult, characterCache, embeddedFS, characterListCache,
                   characterListOnce, characterCacheMu>>
    /\ UNCHANGED <<playerVars, loopVars, canvasVars>>

\* canvas.GetEmbeddedCharacter(name): loadEmbeddedCharacter under
\* characterCacheMu
GoLoadEmbeddedCharacter(g) ==
    /\ ~fatal
    /\ \/ /\ goroutines[g].at = "idle"                          \* RLock
          /\ ~characterCacheMu.writer
          /\ \E name \in {"owl", "nosuch"} :
                goroutines' = [goroutines EXCEPT
                                 ![g] = [at |-> "read", on |-> "characterCache", name |-> name]]
          /\ characterCacheMu' = [characterCacheMu EXCEPT !.readers = @ \cup {g}]
          /\ UNCHANGED characterCache
       \/ /\ goroutines[g].at = "read" /\ goroutines[g].on = "characterCache"   \* RUnlock
          /\ characterCacheMu' = [characterCacheMu EXCEPT !.readers = @ \ {g}]
          /\ goroutines' = [goroutines EXCEPT
                ![g] = IF loadEmbeddedCharacter(goroutines[g].name, characterCache,
                                                embeddedFS).cache = characterCache
                       THEN IdleGoroutine
                       ELSE [goroutines[g] EXCEPT !.at = "lock"]]
          /\ UNCHANGED characterCache
       \/ /\ goroutines[g].at = "lock"                           \* Lock
          /\ characterCacheMu = [readers |-> {}, writer |-> FALSE]
          /\ characterCacheMu' = [characterCacheMu EXCEPT !.writer = TRUE]
          /\ goroutines' = [goroutines EXCEPT ![g].at = "write"]
          /\ UNCHANGED characterCache
       \/ /\ goroutines[g].at = "write" /\ goroutines[g].on = "characterCache"  \* Unlock
          /\ characterCache' =
                {e \in characterCache : e[1] # goroutines[g].name}
                \cup loadEmbeddedCharacter(goroutines[g].name, {}, embeddedFS).cache
          /\ characterCacheMu' = [characterCacheMu EXCEPT !.writer = FALSE]
          /\ goroutines' = [goroutines EXCEPT ![g] = IdleGoroutine]
    /\ UNCHANGED <<call, callResult, templateCache, embeddedFS, characterListCache,
                   characterListOnce, fatal>>
    /\ UNCHANGED <<playerVars, loopVars, canvasVars>>

\* canvas.ListEmbeddedCharacters(): the list is built inside
\* characterListOnce.Do, which lets one goroutine in and makes the others wait
GoListEmbeddedCharacters(g) ==
    /\ ~fatal
    /\ \/ /\ goroutines[g].at = "idle"
          /\ characterListOnce # "running"
          /\ goroutines' = [goroutines EXCEPT
                ![g] = [at |-> IF characterListOnce = "fresh" THEN "write" ELSE "read",
                        on |-> "characterListCache", name |-> ""]]
          /\ characterListOnce' = IF characterListOnce = "fresh" THEN "running" ELSE "done"
          /\ UNCHANGED characterListCache
       \/ /\ goroutines[g].at = "write" /\ goroutines[g].on = "characterListCache"
          /\ characterListCache' =
                listEmbeddedCharacters(embeddedFS, characterListCache, "fresh")
          /\ characterListOnce' = "done"
          /\ goroutines' = [goroutines EXCEPT ![g].at = "read"]
       \/ /\ goroutines[g].at = "read" /\ goroutines[g].on = "characterListCache"
          /\ goroutines' = [goroutines EXCEPT ![g] = IdleGoroutine]
          /\ UNCHANGED <<characterListCache, characterListOnce>>
    /\ UNCHANGED <<call, callResult, characterCache, templateCache, embeddedFS,
                   characterCacheMu, fatal>>
    /\ UNCHANGED <<playerVars, loopVars, canvasVars>>

NextRenders ==
    \E g \in Goroutines :
        \/ GoGetTemplate(g)
        \/ GoLoadEmbeddedCharacter(g)
        \/ GoListEmbeddedCharacters(g)

SpecRenders == InitCalls /\ [][NextRenders]_vars

(***************************************************************************)
(* Claims about the FramePlayer                                            *)
(***************************************************************************)
\* the summed durations of the first n frames
RECURSIVE SumDurations(_, _)
SumDurations(anim, n) ==
    IF n = 0 THEN 0 ELSE SumDurations(anim, n - 1) + anim.Frames[n].DurationMs

HasFrames == ~animation.isNil /\ Len(animation.Frames) > 0

TotalDuration == SumDurations(animation, Len(animation.Frames))

\* the frame (0-based) whose time span contains instant t, 0 <= t < TotalDuration
FrameAt(t) ==
    CHOOSE i \in 0..(Len(animation.Frames) - 1) :
        SumDurations(animation, i) <= t /\ t < SumDurations(animation, i + 1)

\* C1: a non-looping sequence of positive durations, ticked for a total of T since
\* construction or Reset: while T is below the summed durations the player is not
\* complete and shows the frame whose span contains T; from then on it is complete
\* and shows the last frame, whatever further Ticks follow.
C1_NonLoopingPlayback ==
    (HasFrames /\ ~animation.Loop) =>
        /\ total < TotalDuration =>
              /\ ~IsComplete(Player)
              /\ SumDurations(animation, CurrentFrameIndex(Player)) <= total
              /\ total < SumDurations(animation, CurrentFrameIndex(Player) + 1)
        /\ total >= TotalDuration =>
              /\ IsComplete(Player)
              /\ CurrentFrameIndex(Player) = Len(animation.Frames) - 1

\* a two-frame sequence has completed and a Tick of positive delta came after that
C1_Witness ==
    /\ HasFrames /\ ~animation.Loop /\ Len(animation.Frames) = 2
    /\ ticked /\ done /\ currentFrame = 1
    /\ total > TotalDuration + MaxDelta

\* C2: a looping sequence of positive durations is never complete, and after a
\* total of T it shows the frame whose span contains T modulo the summed durations.
C2_LoopingPlayback ==
    (HasFrames /\ animation.Loop) =>
        /\ ~IsComplete(Player)
        /\ CurrentFrameIndex(Player) = FrameAt(total % TotalDuration)

\* a two-frame loop has wrapped and is part-way through its first frame again
C2_Witness ==
    /\ HasFrames /\ animation.Loop /\ Len(animation.Frames) = 2
    /\ ticked /\ total > TotalDuration /\ currentFrame = 0 /\ elapsed > 0

\* C3: the canvas every Tick returns is the rendering of the frame at
\* CurrentFrameIndex(), also for Ticks made once the player is complete.
C3_TickRendersCurrentFrame ==
    ticked => lastCanvas = renderFrame(animation, CurrentFrameIndex(Player))

\* C4: Reset and SetAnimation, called in any state, give frame 0, no elapsed time
\* and not complete, and every later Tick leaves the player in the state, and
\* returns the canvas, that a newly constructed player with the same animation
\* gives for the same Ticks.
C4_ResetActsAsNew ==
    (resetFrom # "none") =>
        /\ Player = fresh.player
        /\ ticked => lastCanvas = fresh.canvas
        /\ ~ticked => currentFrame = 0 /\ elapsed = 0 /\ ~IsComplete(Player)

\* a finished non-looping sequence was reset and played to its end again
C4_Witness ==
    /\ resetFrom = "Done" /\ HasFrames /\ ~animation.Loop
    /\ ticked /\ done /\ total >= TotalDuration

(***************************************************************************)
(* Claims about the tick loop                                              *)
(***************************************************************************)
\* C5: after any key press, Ctrl+C included, the loop ends (the Update that
\* handled the key returned Quit, no tick command) and the view rendered after
\* it is the complete output: every line whole and no cursor glyph.
C5_KeyEndsLoopWithFullView ==
    lastMsg \in {"q", "ctrl+c"} => (lastCmd = "quit" /\ View = FullOutput)

Lands(other, x0, y0, x, y) ==
    /\ ~other.isNil
    /\ x - x0 \in 0..(other.Width - 1)
    /\ y - y0 \in 0..(other.Height - 1)
    /\ ~other.Cells[y - y0][x - x0].Transparent

AllTransparent(c) ==
    \A y \in 0..(c.Height - 1), x \in 0..(c.Width - 1) : c.Cells[y][x].Transparent

\* C7: after a.Overlay(b, x0, y0) every cell of a holds the cell of b that lands
\* on it when that cell is not transparent, and what it held before otherwise;
\* when b is nil or all transparent, a is cell for cell what it was.
C7_OverlayWritesNonTransparent ==
    op.name = "Overlay" =>
        /\ \A y \in 0..(canvasA.Height - 1), x \in 0..(canvasA.Width - 1) :
              Deref(heap, canvasA).Cells[y][x] =
                  IF Lands(snap.b, op.p, op.q, x, y)
                  THEN snap.b.Cells[y - op.q][x - op.p]
                  ELSE snap.a.Cells[y][x]
        /\ (snap.b.isNil \/ AllTransparent(snap.b)) => Deref(heap, canvasA) = snap.a

\* an Overlay at a negative offset that wrote one cell of a, kept another
\* content cell of a, and had a content cell of b fall outside a
C7_Witness ==
    /\ op.name = "Overlay" /\ op.p < 0
    /\ \E y \in 0..(canvasA.Height - 1), x \in 0..(canvasA.Width - 1) :
          /\ Lands(snap.b, op.p, op.q, x, y)
          /\ Deref(heap, canvasA).Cells[y][x] # snap.a.Cells[y][x]
    /\ \E y \in 0..(canvasA.Height - 1), x \in 0..(canvasA.Width - 1) :
          /\ ~snap.a.Cells[y][x].Transparent
          /\ ~Lands(snap.b, op.p, op.q, x, y)
          /\ x - op.p \in 0..(snap.b.Width - 1) /\ y - op.q \in 0..(snap.b.Height - 1)
    /\ \E oy \in 0..(snap.b.Height - 1), ox \in 0..(snap.b.Width - 1) :
          /\ ~snap.b.Cells[oy][ox].Transparent
          /\ op.p + ox < 0

\* C8: Overlay leaves its operand b, and Merge, Stack and Resize leave a and b,
\* as they were; a later write into the canvas Merge, Stack or Clone returned
\* changes neither a nor b, and a later write into a or b does not change the
\* returned canvas.
C8_OperandsKeptAndNoSharing ==
    /\ (op.name = "Overlay" => Deref(heap, canvasB) = snap.b)
    /\ (op.name \in {"Merge", "Stack", "Resize"} /\ probe = "none" =>
            Deref(heap, canvasA) = snap.a /\ Deref(heap, canvasB) = snap.b)
    /\ (op.name \in {"Merge", "Stack", "Clone"} /\ probe = "returned" =>
            Deref(heap, canvasA) = snap.a /\ Deref(heap, canvasB) = snap.b)
    /\ (op.name \in {"Merge", "Stack", "Clone"} /\ probe \in {"a", "b"} =>
            Deref(heap, returned) = snap.res)

\* Merge of nil and b returned the clone of b, and a write changed the clone
C8_Witness ==
    /\ op.name = "Merge" /\ canvasA.isNil /\ ~canvasB.isNil
    /\ probe = "returned"
    /\ Deref(heap, returned) # snap.res
    /\ snap.res = snap.b

\* C9 as stated: for non-nil a and b and every gap, Merge gives Width
\* a.Width + gap + b.Width and Height max(a.Height, b.Height); Stack gives
\* Height a.Height + gap + b.Height and Width max(a.Width, b.Width).
C9_MergeStackDimensions ==
    ~canvasA.isNil /\ ~canvasB.isNil =>
        /\ (op.name = "Merge" =>
                /\ returned.Width = canvasA.Width + op.p + canvasB.Width
                /\ returned.Height = Max(canvasA.Height, canvasB.Height))
        /\ (op.name = "Stack" =>
                /\ returned.Height = canvasA.Height + op.p + canvasB.Height
                /\ returned.Width = Max(canvasA.Width, canvasB.Width))

\* C9 as amended: the summed dimension is clamped to 1 from below.
C9_MergeStackDimensionsClamped ==
    ~canvasA.isNil /\ ~canvasB.isNil =>
        /\ (op.name = "Merge" =>
                /\ returned.Width = Max(1, canvasA.Width + op.p + canvasB.Width)
                /\ returned.Height = Max(canvasA.Height, canvasB.Height))
        /\ (op.name = "Stack" =>
                /\ returned.Height = Max(1, canvasA.Height + op.p + canvasB.Height)
                /\ returned.Width = Max(canvasA.Width, canvasB.Width))

\* a Merge whose gap takes back more than both widths
C9_Witness ==
    /\ op.name = "Merge" /\ ~canvasA.isNil /\ ~canvasB.isNil
    /\ canvasA.Width + op.p + canvasB.Width < 1
    /\ returned.Width = 1

\* a canvas of at least one row and one column whose storage has exactly
\* Height rows of Width cells
WellFormed(h, c) ==
    /\ ~c.isNil
    /\ c.Width >= 1 /\ c.Height >= 1
    /\ DOMAIN h[c.store] = 0..(c.Height - 1)
    /\ \A y \in 0..(c.Height - 1) : DOMAIN h[c.store][y] = 0..(c.Width - 1)

Producers ==
    {"NewCanvas", "FromLines", "Clone", "Merge", "Stack", "Resize",
     "ToCanvasStyled", "Compose", "ComposeMultiPanel"}

\* C10: every canvas the producing operations return is well formed; NewCanvas
\* clamps each non-positive dimension to 1 and every cell of its canvas is a
\* transparent space; Merge and Stack of two nil canvases return a 1x1 canvas.
C10_CanvasesWellFormed ==
    /\ (op.name \in Producers => WellFormed(heap, returned))
    /\ (op.name = "NewCanvas" =>
            /\ returned.Width = (IF op.p <= 0 THEN 1 ELSE op.p)
            /\ returned.Height = (IF op.q <= 0 THEN 1 ELSE op.q)
            /\ \A y \in 0..(returned.Height - 1), x \in 0..(returned.Width - 1) :
                  snap.res.Cells[y][x] = TransparentCell)
    /\ (op.name \in {"Merge", "Stack"} /\ canvasA.isNil /\ canvasB.isNil =>
            returned.Width = 1 /\ returned.Height = 1)

\* NewCanvas asked for a non-positive width and a height above 1
C10_Witness ==
    /\ op.name = "NewCanvas" /\ op.p <= 0 /\ op.q > 1
    /\ returned.Width = 1 /\ returned.Height = op.q

(***************************************************************************)
(* Claims about Set and Get                                                *)
(***************************************************************************)
InBounds(c, x, y) == x >= 0 /\ x < c.Width /\ y >= 0 /\ y < c.Height

\* the Set call a state's operation record describes, if any
LastSet == IF op.name = "Set" THEN op ELSE IF op.name = "Get" THEN op.args[1] ELSE NoOp

\* the canvas a before any Set, as the Set call found it
BeforeSet == snap.a

\* C11: Set outside the bounds leaves the whole canvas unchanged (and raises
\* nothing); Set inside makes exactly that cell a non-transparent cell with the
\* symbol and style and changes no other cell; Get outside the bounds returns
\* a transparent space cell, Get inside returns the stored cell.
C11_SetGetBounds ==
    /\ LastSet.name = "Set" =>
          LET after == Deref(heap, canvasA)
          IN /\ after.Width = BeforeSet.Width /\ after.Height = BeforeSet.Height
             /\ DOMAIN after.Cells = 0..(after.Height - 1)
             /\ \A y \in 0..(after.Height - 1) :
                   /\ DOMAIN after.Cells[y] = 0..(after.Width - 1)
                   /\ \A x \in 0..(after.Width - 1) :
                         after.Cells[y][x] =
                            IF x = LastSet.p /\ y = LastSet.q
                            THEN [Rune |-> LastSet.args[1], Style |-> LastSet.args[2],
                                  Transparent |-> FALSE]
                            ELSE BeforeSet.Cells[y][x]
             /\ (~InBounds(BeforeSet, LastSet.p, LastSet.q) => after = BeforeSet)
    /\ op.name = "Get" =>
          /\ (LastSet.name # "Set" => Deref(heap, canvasA) = BeforeSet)
          /\ got = IF InBounds(Deref(heap, canvasA), op.p, op.q)
                   THEN Deref(heap, canvasA).Cells[op.q][op.p]
                   ELSE [Rune |-> " ", Style |-> NoStyle, Transparent |-> TRUE]

\* a Set outside the bounds of a canvas with content, then a Get of a stored
\* cell; and a Get of the cell a Set has just written
C11_Witness ==
    /\ op.name = "Get" /\ LastSet.name = "Set"
    /\ \/ /\ LastSet.p = BeforeSet.Width /\ LastSet.q = 0
          /\ ~AllTransparent(BeforeSet)
          /\ op.p = 0 /\ op.q = 0 /\ ~got.Transparent
       \/ /\ LastSet.p = op.p /\ LastSet.q = op.q
          /\ got.Rune = "#" /\ got.Style = "bold" /\ BeforeSet.Cells[op.q][op.p].Transparent

(***************************************************************************)
(* Claims about the text wrapper                                           *)
(***************************************************************************)
\* white space, as strings.Fields and strings.TrimSpace take it, among the
\* symbols of the texts
IsSpace(r) == r \in {" ", "\t", "\n", "\r"}

\* the whitespace-separated words of a text, in order
RECURSIVE WordsOf(_)
WordsOf(text) ==
    IF text = <<>> THEN <<>>
    ELSE IF IsSpace(Head(text)) THEN WordsOf(Tail(text))
    ELSE LET stops == {i \in 1..Len(text) : IsSpace(text[i])}
             n == IF stops = {} THEN Len(text) ELSE Min(stops) - 1
         IN <<SubSeq(text, 1, n)>> \o WordsOf(SubSeq(text, n + 1, Len(text)))

RECURSIVE JoinWords(_)
JoinWords(words) ==
    IF words = <<>> THEN <<>>
    ELSE IF Len(words) = 1 THEN words[1]
    ELSE words[1] \o <<" ">> \o JoinWords(Tail(words))

RECURSIVE Concat(_)
Concat(seqs) == IF seqs = <<>> THEN <<>> ELSE Head(seqs) \o Concat(Tail(seqs))

\* C12: wrapText(t, w) returns the whitespace-separated words of t in order,
\* each whole and in exactly one line, the words of a line joined by single
\* spaces; a line is at most w wide unless it is one single word; a text that
\* is empty or only white space gives the empty list.
C12_WrapTextWords ==
    call.name = "wrapText" =>
        LET t == call.args[1]
            w == call.args[2]
        IN /\ Concat([i \in 1..Len(callResult) |-> WordsOf(callResult[i])]) = WordsOf(t)
           /\ \A i \in 1..Len(callResult) :
                 /\ callResult[i] # <<>>
                 /\ callResult[i] = JoinWords(WordsOf(callResult[i]))
                 /\ (StringWidth(callResult[i]) <= w \/ Len(WordsOf(callResult[i])) = 1)
           /\ (WordsOf(t) = <<>> => callResult = <<>>)

(***************************************************************************)
(* Claims about slot substitution                                          *)
(***************************************************************************)
\* the placeholder ph stands in line at rune position i (0-based)
OccursAt(line, ph, i) ==
    i >= 0 /\ i + Len(ph) <= Len(line) /\ SubSeq(line, i + 1, i + Len(ph)) = ph

Spaces(n) == [i \in 1..n |-> " "]

\* C13: replaceSlot, for a slot whose non-empty placeholder occurs in the row,
\* replaces the placeholder (its first occurrence) by the value padded with
\* spaces to slotWidth = max(slot.Width, displayWidth(value)), floor(padding/2)
\* spaces on the left and the rest on the right; a value wider than slot.Width
\* replaces the placeholder completely; the rest of the row is unchanged.
C13_ReplaceSlotCentres ==
    call.name = "replaceSlot" =>
        LET line == call.args[1]
            slot == call.args[2]
            value == call.args[3]
            ph == slot.Placeholder
            vw == StringWidth(value)
            slotWidth == IF slot.Width > vw THEN slot.Width ELSE vw
            left == (slotWidth - vw) \div 2
            right == (slotWidth - vw) - left
        IN \A i \in 0..Len(line) :
              (/\ ph # <<>>
               /\ OccursAt(line, ph, i)
               /\ \A j \in 0..(i - 1) : ~OccursAt(line, ph, j))
              => /\ callResult = SubSeq(line, 1, i) \o Spaces(left) \o value \o Spaces(right)
                                    \o SubSeq(line, i + Len(ph) + 1, Len(line))
                 /\ right - left \in {0, 1}
                 /\ (vw > slot.Width => left = 0 /\ right = 0)

\* a narrow value centred with an odd leftover of three spaces, in a row that
\* has symbols on both sides of the placeholder
C13_Witness ==
    /\ call.name = "replaceSlot"
    /\ call.args[1] = <<"(", "@", "@", ")">>
    /\ call.args[2].Placeholder = <<"@", "@">> /\ call.args[2].Width = 4
    /\ call.args[3] = <<"o">>
    /\ callResult = <<"(", " ", "o", " ", " ", ")">>

(***************************************************************************)
(* Claims about slots that point outside the art                           *)
(***************************************************************************)
\* a slot that is absent or whose row index is not a row of the art
OutOfRange(slot, art) == slot.isNil \/ slot.Line < 0 \/ slot.Line >= Len(art)

\* the art drawn as it is: one column per symbol, in the outline style
PlainArt(art) ==
    [isNil |-> FALSE,
     Width |-> IF MaxLineWidth(art) = 0 THEN 1 ELSE MaxLineWidth(art),
     Height |-> Len(art),
     Cells |-> [y \in 0..(Len(art) - 1) |->
                  [x \in 0..((IF MaxLineWidth(art) = 0 THEN 1 ELSE MaxLineWidth(art)) - 1) |->
                      IF x < Len(art[y + 1])
                      THEN [Rune |-> art[y + 1][x + 1], Style |-> "outline",
                            Transparent |-> FALSE]
                      ELSE TransparentCell]]]

\* C14: a slot whose row index is not in 0 .. len(art)-1, too large or
\* negative, is ignored by ToCanvasStyled: no panic, no substitution, and the
\* canvas is the rendering of the unmodified art.
C14_OutOfRangeSlotIgnored ==
    (/\ call.name = "ToCanvasStyled"
     /\ Len(call.args[1].Art) > 0
     /\ ~call.args[1].Eyes.isNil
     /\ OutOfRange(call.args[1].Eyes, call.args[1].Art)
     /\ OutOfRange(call.args[1].Mouth, call.args[1].Art))
    => /\ ~callResult.panic
       /\ callResult.canvas = PlainArt(call.args[1].Art)

\* the slot applies to the art: it is there and its row is a row of the art
Applies(slot, art) == ~slot.isNil /\ slot.Line >= 0 /\ slot.Line < Len(art)

\* row y of the art after the substitution of the eyes and then the mouth
SubstitutedRow(ch, eyes, mouth, y) ==
    LET afterEyes == IF Applies(ch.Eyes, ch.Art) /\ ch.Eyes.Line = y
                     THEN replaceSlot(ch.Art[y + 1], ch.Eyes, eyes)
                     ELSE ch.Art[y + 1]
    IN IF Applies(ch.Mouth, ch.Art) /\ ch.Mouth.Line = y
       THEN replaceSlot(afterEyes, ch.Mouth, mouth)
       ELSE afterEyes

Placed(whole, part, x0, y0) ==
    /\ x0 >= 0 /\ y0 >= 0
    /\ x0 + part.Width <= whole.Width /\ y0 + part.Height <= whole.Height
    /\ \A y \in 0..(part.Height - 1), x \in 0..(part.Width - 1) :
          whole.Cells[y0 + y][x0 + x] = part.Cells[y][x]

\* the three sub-canvases of the Compose call the operation record describes
BubbleOf(args) ==
    RenderBubble(args[1], IF args[3].BubbleWidth <= 0 THEN 40 ELSE args[3].BubbleWidth,
                 NoStyle)

ConnectorOf(args) ==
    generateConnectorWithDirection(SayTemplate.Connector,
        IF args[3].ConnectorLen <= 0 THEN 2 ELSE args[3].ConnectorLen,
        args[2].Anchor.X, args[3].TailDirection, NoStyle)

CharacterOf(args) == ToCanvasStyled(args[2], DefaultEyes, DefaultMouth)

\* parts first, second, third from top to bottom, each under the one before
TopToBottom(whole, first, second, third) ==
    /\ Placed(whole, first, 0, 0)
    /\ Placed(whole, second, 0, first.Height)
    /\ Placed(whole, third, 0, first.Height + second.Height)
    /\ whole.Height = first.Height + second.Height + third.Height

\* parts first, second, third from left to right, none over another
LeftToRight(whole, first, second, third) ==
    \E x2 \in first.Width..whole.Width :
       \E x3 \in (x2 + second.Width)..whole.Width :
          /\ Placed(whole, first, 0, 0)
          /\ Placed(whole, second, x2, 0)
          /\ Placed(whole, third, x3, 0)

ArrangedByTail(whole, bubble, connector, char, cfg) ==
    /\ (cfg.TailDirection = "TailDown" /\ cfg.Layout = "LayoutVertical")
          => TopToBottom(whole, bubble, connector, char)
    /\ cfg.TailDirection = "TailUp" => TopToBottom(whole, char, connector, bubble)
    /\ cfg.TailDirection = "TailLeft" => LeftToRight(whole, char, connector, bubble)
    /\ cfg.TailDirection = "TailRight" => LeftToRight(whole, bubble, connector, char)

\* C15: Compose puts, for tail down and vertical layout, the bubble rows first,
\* then the connector rows, then the character rows, the Height being the sum
\* of the three; for tail up character, connector, bubble from top to bottom;
\* for tail left character, connector, bubble from left to right; for tail
\* right bubble, connector, character from left to right.
C15_ComposeArrangesByTail ==
    op.name = "Compose" =>
        ArrangedByTail(Deref(heap, returned), BubbleOf(op.args), ConnectorOf(op.args),
                       CharacterOf(op.args), op.args[3])

\* a two-row text composed tail up with a character whose anchor is off the
\* first column
C15_Witness ==
    /\ op.name = "Compose"
    /\ op.args[3].TailDirection = "TailUp"
    /\ op.args[1] = <<"h", "i", " ", "y", "o">> /\ op.args[3].BubbleWidth = 2
    /\ op.args[2].Anchor.X = 1 /\ op.args[2].Art # <<>>
    /\ returned.Height = 4 + 2 + 1

\* the character stands beside the block of bubble and connector
Beside(whole, bubble, connector, char) ==
    \E gap \in 0..MaxGap :
       /\ whole.Width = Max(bubble.Width, connector.Width) + gap + char.Width
       /\ Placed(whole, char, Max(bubble.Width, connector.Width) + gap, 0)

LayoutHonoured(whole, bubble, connector, char, cfg) ==
    /\ cfg.Layout = "LayoutHorizontal" => Beside(whole, bubble, connector, char)
    /\ (cfg.Layout = "LayoutVertical" /\ cfg.TailDirection = "TailDown")
          => TopToBottom(whole, bubble, connector, char)
    /\ (cfg.Layout = "LayoutVertical" /\ cfg.TailDirection = "TailUp")
          => TopToBottom(whole, char, connector, bubble)

\* C16: in the down and the up tail cases the layout is honoured: with
\* LayoutHorizontal the character stands beside the bubble-plus-connector block
\* (Width = block width + gap + character width), with LayoutVertical it is
\* stacked below the block (down) or above it (up).
C16_LayoutHonouredDownAndUp ==
    (op.name = "Compose" /\ op.args[3].TailDirection \in {"TailDown", "TailUp"}) =>
        LayoutHonoured(Deref(heap, returned), BubbleOf(op.args), ConnectorOf(op.args),
                       CharacterOf(op.args), op.args[3])

(***************************************************************************)
(* Claims about bubble rendering                                           *)
(***************************************************************************)
BubbleRenderers == {"RenderBubble", "RenderWithTemplate", "Bubble.Render"}

\* the text is empty or only white space
Blank(text) == \A i \in 1..Len(text) : text[i] \in {" ", "\t", "\n"}

\* C17: a bubble rendered for an empty or whitespace-only text never has zero
\* rows: it has exactly three rows, a top border, one content row between the
\* single-line delimiter pair, and a bottom border.
C17_EmptyTextMinimalBubble ==
    (call.name \in BubbleRenderers /\ Blank(call.args[1])) =>
        /\ Len(callResult) = 3
        /\ Len(callResult[2]) >= 2
        /\ callResult[2][1] = call.args[3].SingleLeft
        /\ callResult[2][Len(callResult[2])] = call.args[3].SingleRight
        /\ \A k \in 2..(Len(callResult[1]) - 1) :
              callResult[1][k] \in {call.args[3].TopBorder} \cup
                                    {call.args[3].BorderDecorator[i] :
                                        i \in 1..Len(call.args[3].BorderDecorator)}
        /\ \A k \in 2..(Len(callResult[3]) - 1) :
              callResult[3][k] \in {call.args[3].BottomBorder} \cup
                                    {call.args[3].BorderDecorator[i] :
                                        i \in 1..Len(call.args[3].BorderDecorator)}

\* C18: RenderBubble with a width <= 0 gives the same lines as with the
\* default width 40.
C18_NonPositiveWidthIsDefault ==
    (call.name = "RenderBubble" /\ call.args[2] <= 0) =>
        callResult = CanvasRows(RenderBubbleWithStyle(call.args[1], DefaultWidth,
                                                      call.args[4], NoStyle))

(***************************************************************************)
(* Claims about Tick over sequences with frames of any duration            *)
(***************************************************************************)
\* C24: Tick(delta) terminates for every animation sequence the loader
\* accepts (any frame durations, 0 included, looping or not) and every
\* delta >= 0: the frame-advance loop of one Tick makes a bounded number of
\* steps, so a Tick that has entered the loop reaches the return after it.
C24_TickTerminates == (tickLoop.at = "loop") ~> (tickLoop.at = "return")

\* C25: Tick(0) returns the current frame without advancing the player: in
\* every reachable player state, for every animation, a Tick with delta 0
\* leaves currentFrame, elapsed and done unchanged.
C25_TickZeroChangesNothing ==
    (ticked /\ tickLoop.delta = 0) => <<currentFrame, elapsed, done>> = tickLoop.before

\* every frame of the sequence lasts longer than 0
PositiveDurations == \A i \in DOMAIN animation.Frames : animation.Frames[i].DurationMs > 0

\* C28: after any sequence of NewFramePlayer, Tick (delta >= 0), Reset and
\* SetAnimation, whenever the animation is non-nil and has a frame,
\* 0 <= currentFrame < number of frames; and, for positive frame durations,
\* whenever the player is not done, 0 <= elapsed < duration of the current
\* frame.
C28_PlayerCursorInRange ==
    (tickLoop.at = "idle" /\ ~animation.isNil /\ Len(animation.Frames) > 0) =>
        /\ 0 <= currentFrame /\ currentFrame < Len(animation.Frames)
        /\ (PositiveDurations /\ ~done) =>
              (0 <= elapsed /\ elapsed < FrameDuration(animation, currentFrame))

\* a Tick has taken a two-frame sequence of positive durations to its second
\* frame with time left over, after a SetAnimation
C28_Witness ==
    /\ tickLoop.at = "idle" /\ ticked /\ resetFrom # "none"
    /\ ~animation.isNil /\ PositiveDurations /\ ~done
    /\ currentFrame = 1 /\ elapsed > 0

(***************************************************************************)
(* Claims about the end of the tick loop                                   *)
(***************************************************************************)
\* C26: when CharacterAnimationConfig.Duration > 0 the character animation
\* loop ends by itself: under ticks with strictly advancing timestamps, the
\* first tick whose time is at least Duration after the first tick sets done
\* and issues Quit, with no key press needed.
C26_DurationEndsLoop ==
    (prog = "character" /\ config.Duration > 0 /\ lastMsg = "tick"
       /\ now >= FrameRate + config.Duration)
      => (charModel.done /\ quitIssued)

\* C27: the typing animation started by Animate ends without external
\* intervention: once the reveal is complete (the revealed count has reached
\* the total through ticks) or a key has been pressed, the typing Model
\* issues Quit, so the program run returns to the caller.
C27_TypingEndsByItself ==
    (prog = "typing" /\ typingModel.Done /\ lastMsg # "none") => quitIssued

(***************************************************************************)
(* Claims about names and loading                                          *)
(***************************************************************************)
\* a template name that is neither built in nor the name of a template file
UnknownTemplate(name) == name \in {"nosuch"}

\* a character name with neither a file nor a built-in character
UnknownCharacter(name) == name \in {"nosuch"}

\* C19: an unknown template name or character name is resolved to the
\* fallback (the "say" template, the "default" character) instead of an error:
\* GetTemplate, RenderByName and RenderMultiPanel always produce output and
\* never return nil or an error for an unknown name.
C19_UnknownNamesFallBack ==
    /\ (call.name = "GetTemplate" /\ UnknownTemplate(call.args[1]))
          => (~callResult.isNil /\ callResult.tmpl = SayTemplate)
    /\ (call.name = "RenderByName" /\ UnknownCharacter(call.args[1]))
          => /\ ~callResult.err /\ ~callResult.isNil
             /\ callResult.out = RendererRender(call.args[2], builtinDefault, call.args[3])
    /\ (call.name = "RenderMultiPanel" /\ UnknownCharacter(call.args[1]))
          => (~callResult.err /\ ~callResult.isNil /\ callResult.out # <<>>)

\* C20: loading a character descriptor with zero art rows fails with an error
\* on every load path, LoadCharacter and GetEmbeddedCharacter: the descriptor
\* is never returned and never stored in the character cache.
C20_EmptyArtNeverLoaded ==
    /\ (call.name \in {"LoadCharacter", "GetEmbeddedCharacter"} /\ call.args[1] = "empty")
          => callResult.err # "nil"
    /\ \A e \in characterCache : Len(e[2].Art) > 0

\* C30: changing the embedded filesystem clears all cached data: after
\* SetEmbeddedFS, whatever GetEmbeddedCharacter and ListEmbeddedCharacters calls
\* came before, GetEmbeddedCharacter loads from the new filesystem and
\* ListEmbeddedCharacters returns exactly the sorted, duplicate-free names of
\* the new filesystem, with no entry left over from the previous one.
C30_NewFilesystemClearsCaches ==
    /\ (call.name = "GetEmbeddedCharacter" /\ embeddedFS \in Filesystems)
          => IF call.args[1] \in EmbeddedNames(embeddedFS)
             THEN callResult.err = "nil" /\ callResult.char.Art = << <<embeddedFS>> >>
             ELSE callResult.err # "nil"
    /\ (call.name = "ListEmbeddedCharacters" /\ embeddedFS \in Filesystems)
          => callResult = SortedNames(EmbeddedNames(embeddedFS))

\* the single composition of panel i of the ComposeMultiPanel call the
\* operation record describes
PanelOf(args, i) ==
    Compose(args[1][i].Text, args[1][i].Character, args[1][i].Eyes, args[1][i].Mouth,
            args[2])

\* the column panel i starts at: the widths of the panels before it, and a gap
\* of 3 columns after each
RECURSIVE PanelColumn(_, _)
PanelColumn(args, i) ==
    IF i = 1 THEN 0 ELSE PanelColumn(args, i - 1) + PanelOf(args, i - 1).Width + 3

\* C23: ComposeMultiPanel of an empty panel list returns a 1x1 canvas; of
\* n >= 1 panels it returns the single compositions side by side in list
\* order with a gap of 3 columns: Width is the sum of the panel widths plus
\* 3*(n-1), Height is the largest panel height, each panel at its column.
C23_MultiPanelFold ==
    op.name = "ComposeMultiPanel" =>
        IF Len(op.args[1]) = 0
        THEN snap.res = NewCanvas(1, 1)
        ELSE LET n == Len(op.args[1])
             IN /\ snap.res.Width = PanelColumn(op.args, n) + PanelOf(op.args, n).Width
                /\ \E i \in 1..n : snap.res.Height = PanelOf(op.args, i).Height
                /\ \A i \in 1..n :
                      /\ snap.res.Height >= PanelOf(op.args, i).Height
                      /\ Placed(snap.res, PanelOf(op.args, i), PanelColumn(op.args, i), 0)

\* two panels of different heights were composed
C23_Witness ==
    /\ op.name = "ComposeMultiPanel"
    /\ Len(op.args[1]) = 2
    /\ PanelOf(op.args, 1).Height # PanelOf(op.args, 2).Height
    /\ PanelOf(op.args, 2).Width > 1

\* a styled row with the style markup removed
Unstyled(line) == [i \in DOMAIN line |-> line[i].Rune]

\* the styled rows are the plain rows, but for trailing blank rows dropped
SameSymbols(styled, plain) ==
    /\ Len(styled) <= Len(plain)
    /\ \A i \in 1..Len(styled) : Unstyled(styled[i]) = plain[i]
    /\ \A i \in (Len(styled) + 1)..Len(plain) : \A j \in DOMAIN plain[i] : plain[i][j] = " "

\* C22: for every canvas (built by DrawString/FromLines, by character
\* rendering with Set, or by overlaying these) Render and RenderPlain emit the
\* same symbols in the same order on every row: Render's rows without style
\* markup are RenderPlain's rows, except that only Render drops trailing
\* all-whitespace rows; both skip continuation cells and neither drops any
\* other cell.
C22_RenderMatchesRenderPlain ==
    ~returned.isNil
      => SameSymbols(Render(Deref(heap, returned)), RenderPlain(Deref(heap, returned)))

(***************************************************************************)
(* Claims about renders running at the same time                           *)
(***************************************************************************)
\* two goroutines are inside accesses of the same package variable, one of
\* them writing
DataRace(g, h) ==
    /\ g # h
    /\ goroutines[g].on = goroutines[h].on
    /\ goroutines[g].at = "write"
    /\ goroutines[h].at \in {"read", "write"}

\* C21: concurrent renders share no unsynchronised mutable package state:
\* every write to the template cache, the character cache and the character
\* list cache excludes every concurrent read or write of the same structure,
\* so no interleaving has two goroutines inside one of them at the same time
\* with at least one writing.
C21_NoUnsynchronisedSharedState ==
    /\ \A g, h \in Goroutines : ~DataRace(g, h)
    /\ ~fatal

====
